---- MODULE Spec2Model ----
(***************************************************************************)
(* Model of the map layer cache (api/cache.py), of the map data service    *)
(* built on it (api/map_data.py) and of the corridor router                *)
(* (api/routing.py).                                                       *)
(*                                                                         *)
(* Time is the integer reading of time.time(); Python values are tagged    *)
(* records so that values of different Python types can be compared.       *)
(***************************************************************************)
EXTENDS Integers, Sequences, FiniteSets, TLC

VARIABLES
    now,                \* reading of time.time()
    ttl_seconds,        \* LayerCache.ttl_seconds
    memory,             \* LayerCache._memory : cache key -> CacheEntry or None
    disk,               \* files under LayerCache.cache_dir : cache key -> file
    stats,              \* LayerCache._stats
    layer_error_count,  \* MapDataService.layer_error_count
    fetches,            \* number of calls made to the fetch collaborator
    ops,                \* number of operations started so far
    last,               \* the last completed call: its arguments, what it saw, its result
    threads,            \* concurrent callers of the cache: position and locals of each
    lock,               \* LayerCache._lock: the caller holding it, or "free"
    calls               \* tally of the cache calls made: gets completed, sets stored, failures marked

vars == <<now, ttl_seconds, memory, disk, stats, layer_error_count, fetches, ops, last, threads,
          lock, calls>>

----------------------------------------------------------------------------
(* Bounds of the model *)

MaxTime == 3
MaxTTL == 1
MaxOps == 2
MaxFeatures == 4
MaxPos == 2
MaxRaw == 3
MaxKey == 3
MaxCell == 4

----------------------------------------------------------------------------
(* Python values *)

None == [py |-> "None"]

Max(a, b) == IF a >= b THEN a ELSE b

----------------------------------------------------------------------------
(* api/map_data.py : layer configuration and normalisation *)

LAYER_CONFIG ==
    [neighborhoods   |-> [geometry_types |-> {"Polygon", "MultiPolygon"}],
     sidewalks       |-> [geometry_types |-> {"LineString", "MultiLineString"}],
     winter_routes   |-> [geometry_types |-> {"LineString", "MultiLineString"}],
     trail_closures  |-> [geometry_types |-> {"Point", "LineString", "MultiLineString"}],
     elevation_spots |-> [geometry_types |-> {"Point"}]]

\* props.get(name) on a mapping
PropsGet(props, name) == IF name \in DOMAIN props THEN props[name] ELSE None

\* An exception raised
Raise(error, msg) == [py |-> "raise", error |-> error, msg |-> msg]
IsRaise(x) == "py" \in DOMAIN x /\ x.py = "raise"

\* A value with a get method: a JSON object
IsMapping(x) == "py" \notin DOMAIN x \/ x.py = "dict"

\* float(x): the value, or the exception float() raises for what it rejects: ValueError
\* for a str that is no number, OverflowError for an int beyond the range of a float,
\* TypeError for a list or an object
PyFloat(x) ==
    IF x.py = "float" THEN x
    ELSE IF x.py = "str"
         THEN (IF x.numeric THEN [py |-> "float", v |-> x.v]
               ELSE Raise("ValueError", "could not convert string to float"))
    ELSE IF x.py = "int"
         THEN (IF x.huge THEN Raise("OverflowError", "int too large to convert to float")
               ELSE [py |-> "float", v |-> x.v])
    ELSE Raise("TypeError", "float() argument must be a string or a real number")

_normalize_neighborhood_properties(props) ==
    [neighborhood_name   |-> PropsGet(props, "descriptiv"),
     neighborhood_number |-> PropsGet(props, "neighbourh"),
     description         |-> PropsGet(props, "descriptio")]

_normalize_sidewalk_properties(props) ==
    [feature    |-> PropsGet(props, "feature"),
     segment_id |-> PropsGet(props, "id"),
     type       |-> PropsGet(props, "type")]

_normalize_winter_route_properties(props) ==
    [route_id       |-> PropsGet(props, "route_id"),
     route_number   |-> PropsGet(props, "route"),
     priority       |-> PropsGet(props, "priority"),
     route_status   |-> PropsGet(props, "route_stat"),
     segment_status |-> PropsGet(props, "seg_stat"),
     district       |-> PropsGet(props, "district"),
     road_on        |-> PropsGet(props, "road_on"),
     road_from      |-> PropsGet(props, "road_from"),
     road_to        |-> PropsGet(props, "road_to"),
     last_updated   |-> PropsGet(props, "last_updat"),
     serv_achieved  |-> PropsGet(props, "serv_ach")]

_normalize_trail_closure_properties(props) ==
    [id_number     |-> PropsGet(props, "id_number"),
     location_name |-> PropsGet(props, "location_name"),
     closure_type  |-> PropsGet(props, "type_of_closure"),
     activity_type |-> PropsGet(props, "activity_type"),
     duration      |-> PropsGet(props, "duration"),
     start_date    |-> PropsGet(props, "start_date"),
     end_date      |-> PropsGet(props, "end_date"),
     details       |-> PropsGet(props, "details"),
     link          |-> PropsGet(props, "link"),
     date_updated  |-> PropsGet(props, "date_updated")]

_normalize_elevation_properties(props) ==
    LET elevation == PropsGet(props, "elevation")
        converted == IF elevation = None THEN None ELSE PyFloat(elevation)
    IN  IF IsRaise(converted) /\ converted.error \in {"TypeError", "ValueError"}
        THEN [elevation |-> None]
        ELSE IF IsRaise(converted) THEN converted
        ELSE [elevation |-> converted]

\* The transform of the layer applied to the properties of a feature; props.get, the
\* first thing each transform does, raises on a value that is no mapping
props_transform(layer_key, props) ==
    IF ~IsMapping(props) THEN Raise("AttributeError", "object has no attribute 'get'")
    ELSE
    CASE layer_key = "neighborhoods"   -> _normalize_neighborhood_properties(props)
      [] layer_key = "sidewalks"       -> _normalize_sidewalk_properties(props)
      [] layer_key = "winter_routes"   -> _normalize_winter_route_properties(props)
      [] layer_key = "trail_closures"  -> _normalize_trail_closure_properties(props)
      [] layer_key = "elevation_spots" -> _normalize_elevation_properties(props)

\* The loop over the raw features, normalized being the list built so far: the
\* collection of the accepted features, in input order, each reshaped, or the
\* exception raised at the first feature that raises one
RECURSIVE NormalizeFeatures(_, _, _, _)
NormalizeFeatures(features, allowed, layer_key, normalized) ==
    IF features = << >>
    THEN [py |-> "dict", type |-> "FeatureCollection", features |-> normalized]
    ELSE LET feature == Head(features)
             geometry == IF feature.geometry = None THEN [py |-> "dict"] ELSE feature.geometry
             geom_type == IF "type" \in DOMAIN geometry THEN geometry.type ELSE "None"
             properties == IF feature.properties = None THEN [py |-> "dict"] ELSE feature.properties
             normalized_props == props_transform(layer_key, properties)
         IN  IF ~IsMapping(geometry) THEN Raise("AttributeError", "object has no attribute 'get'")
             ELSE IF geom_type \notin allowed
             THEN NormalizeFeatures(Tail(features), allowed, layer_key, normalized)
             ELSE IF IsRaise(normalized_props) THEN normalized_props
             ELSE NormalizeFeatures(Tail(features), allowed, layer_key,
                      Append(normalized, [type |-> "Feature", geometry |-> geometry,
                                          properties |-> normalized_props]))

\* A normalizer that does not look at the type of the payload
_normalize_collection_AnyType(raw_geojson, allowed, layer_key) ==
    NormalizeFeatures(IF "features" \in DOMAIN raw_geojson THEN raw_geojson.features ELSE << >>,
                      allowed, layer_key, << >>)

_normalize_collection(raw_geojson, allowed, layer_key) ==
    IF "type" \notin DOMAIN raw_geojson \/ raw_geojson.type # "FeatureCollection"
    THEN Raise("ValueError", "Upstream payload is not a FeatureCollection")
    ELSE NormalizeFeatures(IF "features" \in DOMAIN raw_geojson THEN raw_geojson.features ELSE << >>,
                           allowed, layer_key, << >>)

_normalize_layer(layer_key, raw_geojson) ==
    _normalize_collection(raw_geojson, LAYER_CONFIG[layer_key].geometry_types, layer_key)

\* A live fetch that accepts a layer without features
_fetch_live_layer_AllowsEmpty(layer_key, response) ==
    IF layer_key \notin DOMAIN LAYER_CONFIG
    THEN [py |-> "raise", error |-> "KeyError", msg |-> "Unknown layer key"]
    ELSE IF response.py = "raise" THEN response
    ELSE _normalize_layer(layer_key, response)

\* response: what the fetch collaborator does when called, a raised error or a payload
_fetch_live_layer(layer_key, response) ==
    IF layer_key \notin DOMAIN LAYER_CONFIG
    THEN [py |-> "raise", error |-> "KeyError", msg |-> "Unknown layer key"]
    ELSE IF response.py = "raise" THEN response
    ELSE LET normalized == _normalize_layer(layer_key, response)
         IN  IF normalized.py = "raise" THEN normalized
             ELSE IF normalized.features = << >>
             THEN [py |-> "raise", error |-> "ValueError", msg |-> "returned no features after normalization"]
             ELSE normalized

----------------------------------------------------------------------------
(* api/cache.py : CacheEntry *)

CacheEntry(value, fetched_at) == [py |-> "CacheEntry", value |-> value, fetched_at |-> fetched_at]

\* The difference taken the wrong way round
age_seconds_reversed(entry, t) == Max(0, entry.fetched_at - t)

age_seconds(entry, t) == Max(0, t - entry.fetched_at)

\* A strict comparison with the TTL
is_fresh_strict(entry, ttl, t) == age_seconds(entry, t) < ttl

is_fresh(entry, ttl, t) == age_seconds(entry, t) <= ttl

----------------------------------------------------------------------------
(* api/cache.py : LayerCache *)

\* "layer::<layer_key>", the key get_layer uses for a layer
cache_key(layer_key) == <<"layer::", layer_key>>

StatNames == {"hits", "misses", "stale_hits", "writes", "refresh_failures"}

InitStats == [n \in StatNames |-> 0]

Incr(st, name) == [st EXCEPT ![name] = @ + 1]

\* Files of the cache directory: no file, a file that is not JSON, or a JSON object
NoFile == [file |-> "missing"]
GarbageFile == [file |-> "garbage"]
JsonFile(fetched_at, value) == [file |-> "json", fetched_at |-> fetched_at, value |-> value]

\* A payload that leaves out the time of the set
DumpPayload_NoStamp(t, value) == [file |-> "json", value |-> value]

\* json.dumps(payload) written by path.write_text
DumpPayload(t, value) == JsonFile(t, value)

\* A load that makes an entry of whatever part of a record has reached the file
_load_disk_entry_Lenient(dsk, key) ==
    LET f == dsk[key]
        fetched_at == IF "fetched_at" \in DOMAIN f THEN f.fetched_at ELSE 0
    IN  IF f.file = "missing" THEN None
        ELSE IF f.file = "garbage" THEN CacheEntry([py |-> "dict", type |-> "cut short"], 1)
        ELSE IF f.value.py # "dict" \/ fetched_at <= 0 THEN None
        ELSE CacheEntry(f.value, fetched_at)

\* A load that takes a record stamped 0
_load_disk_entry_ZeroStamp(dsk, key) ==
    LET f == dsk[key]
        fetched_at == IF "fetched_at" \in DOMAIN f THEN f.fetched_at ELSE 0
    IN  IF f.file = "missing" THEN None
        ELSE IF f.file = "garbage" THEN None
        ELSE IF f.value.py # "dict" \/ fetched_at < 0 THEN None
        ELSE CacheEntry(f.value, fetched_at)

\* fetched_at is payload.get("fetched_at", 0): 0 when the record has no such field
_load_disk_entry(dsk, key) ==
    LET f == dsk[key]
        fetched_at == IF "fetched_at" \in DOMAIN f THEN f.fetched_at ELSE 0
    IN  IF f.file = "missing" THEN None
        ELSE IF f.file = "garbage" THEN None
        ELSE IF f.value.py # "dict" \/ fetched_at <= 0 THEN None
        ELSE CacheEntry(f.value, fetched_at)

View(entry, fresh, t, source) ==
    [py |-> "dict", value |-> entry.value, fresh |-> fresh, stale |-> ~fresh,
     age_seconds |-> age_seconds(entry, t), fetched_at |-> entry.fetched_at, source |-> source]

\* A get that drops a stale entry from memory when the caller does not accept stale
CacheGet_EvictsStale(mem, dsk, st, ttl, t, key, allow_stale) ==
    LET in_memory == mem[key]
        entry == IF in_memory = None THEN _load_disk_entry(dsk, key) ELSE in_memory
        source == IF in_memory = None /\ entry # None THEN "disk" ELSE "memory"
    IN  IF entry = None
        THEN [memory |-> mem, stats |-> Incr(st, "misses"), result |-> None]
        ELSE IF t - entry.fetched_at <= ttl
        THEN [memory |-> [mem EXCEPT ![key] = entry], stats |-> Incr(st, "hits"),
              result |-> View(entry, TRUE, t, source)]
        ELSE IF allow_stale
        THEN [memory |-> [mem EXCEPT ![key] = entry], stats |-> Incr(st, "stale_hits"),
              result |-> View(entry, FALSE, t, source)]
        ELSE [memory |-> [mem EXCEPT ![key] = None], stats |-> Incr(st, "stale_hits"),
              result |-> None]

\* A get that counts a stale entry it does not return as a miss
CacheGet_RejectedAsMiss(mem, dsk, st, ttl, t, key, allow_stale) ==
    LET in_memory == mem[key]
        entry == IF in_memory = None THEN _load_disk_entry(dsk, key) ELSE in_memory
        source == IF in_memory = None /\ entry # None THEN "disk" ELSE "memory"
        mem1 == IF in_memory = None /\ entry # None THEN [mem EXCEPT ![key] = entry] ELSE mem
    IN  IF entry = None \/ (t - entry.fetched_at > ttl /\ ~allow_stale)
        THEN [memory |-> mem1, stats |-> Incr(st, "misses"), result |-> None]
        ELSE IF t - entry.fetched_at <= ttl
        THEN [memory |-> mem1, stats |-> Incr(st, "hits"), result |-> View(entry, TRUE, t, source)]
        ELSE [memory |-> mem1, stats |-> Incr(st, "stale_hits"), result |-> View(entry, FALSE, t, source)]

\* A get that reads the disk record again on every call and never keeps it in memory
CacheGet_NoPromote(mem, dsk, st, ttl, t, key, allow_stale) ==
    LET in_memory == mem[key]
        entry == IF in_memory = None THEN _load_disk_entry(dsk, key) ELSE in_memory
        source == IF in_memory = None /\ entry # None THEN "disk" ELSE "memory"
    IN  IF entry = None
        THEN [memory |-> mem, stats |-> Incr(st, "misses"), result |-> None]
        ELSE IF t - entry.fetched_at <= ttl
        THEN [memory |-> mem, stats |-> Incr(st, "hits"), result |-> View(entry, TRUE, t, source)]
        ELSE [memory |-> mem, stats |-> Incr(st, "stale_hits"),
              result |-> IF ~allow_stale THEN None ELSE View(entry, FALSE, t, source)]

\* LayerCache.get run without interruption at time t:
\* the memory, the counters and the result it leaves
CacheGet(mem, dsk, st, ttl, t, key, allow_stale) ==
    LET in_memory == mem[key]
        entry == IF in_memory = None THEN _load_disk_entry(dsk, key) ELSE in_memory
        source == IF in_memory = None /\ entry # None THEN "disk" ELSE "memory"
        mem1 == IF in_memory = None /\ entry # None THEN [mem EXCEPT ![key] = entry] ELSE mem
    IN  IF entry = None
        THEN [memory |-> mem1, stats |-> Incr(st, "misses"), result |-> None]
        ELSE LET fresh == is_fresh(entry, ttl, t)
             IN  IF fresh
                 THEN [memory |-> mem1, stats |-> Incr(st, "hits"),
                       result |-> View(entry, fresh, t, source)]
                 ELSE [memory |-> mem1, stats |-> Incr(st, "stale_hits"),
                       result |-> IF ~allow_stale THEN None ELSE View(entry, fresh, t, source)]

\* What path.write_text does to the file: "ok" writes it; "open_fails" raises before
\* the file is touched; "write_fails" raises after open() has truncated it
WriteOutcomes == {"ok", "open_fails", "write_fails"}

write_text(dsk, key, payload, outcome) ==
    CASE outcome = "ok"          -> [dsk EXCEPT ![key] = payload]
      [] outcome = "open_fails"  -> dsk
      [] outcome = "write_fails" -> [dsk EXCEPT ![key] = GarbageFile]

\* A set that stores to memory only once the file is written
CacheSet_DiskFirst(mem, dsk, st, t, key, value, outcome) ==
    IF outcome # "ok"
    THEN [memory |-> mem, stats |-> st, disk |-> write_text(dsk, key, DumpPayload(t, value), outcome),
          result |-> [py |-> "raise", error |-> "OSError", msg |-> outcome]]
    ELSE [memory |-> [mem EXCEPT ![key] = CacheEntry(value, t)], stats |-> Incr(st, "writes"),
          disk |-> write_text(dsk, key, DumpPayload(t, value), outcome),
          result |-> [py |-> "dict", value |-> value, fresh |-> TRUE, stale |-> FALSE,
                      age_seconds |-> 0, fetched_at |-> t, source |-> "live"]]

\* LayerCache.set run without interruption at time t
CacheSet(mem, dsk, st, t, key, value, outcome) ==
    LET entry == CacheEntry(value, t)
        mem1 == [mem EXCEPT ![key] = entry]
        st1 == Incr(st, "writes")
        dsk1 == write_text(dsk, key, DumpPayload(t, value), outcome)
    IN  [memory |-> mem1, stats |-> st1, disk |-> dsk1,
         result |-> IF outcome # "ok"
                    THEN [py |-> "raise", error |-> "OSError", msg |-> outcome]
                    ELSE [py |-> "dict", value |-> value, fresh |-> TRUE, stale |-> FALSE,
                          age_seconds |-> 0, fetched_at |-> t, source |-> "live"]]

mark_refresh_failure(st) == Incr(st, "refresh_failures")

----------------------------------------------------------------------------
(* api/map_data.py : MapDataService.get_layer *)

\* The meta of a result. duration_ms is the time from the entry of the call to the
\* return; a call runs within one reading of the clock, so it is 0.
Meta(source, cache_event, stale, view, ttl) ==
    [source |-> source, cache_event |-> cache_event, stale |-> stale,
     age_seconds |-> view.age_seconds, fetched_at |-> view.fetched_at, ttl_seconds |-> ttl,
     duration_ms |-> 0]

\* An except branch that never falls back to the stale entry
RefreshFailed_NoFallback(layer_key, stale_cache, exc, ttl) ==
    [py |-> "raise", error |-> "MapDataUnavailableError", layer_key |-> layer_key,
     msg |-> "Unable to fetch layer and no stale cache available", cause |-> exc]

\* An except branch that raises without "from exc"
RefreshFailed_NoCause(layer_key, stale_cache, exc, ttl) ==
    IF stale_cache # None
    THEN [py |-> "dict", layer |-> layer_key, data |-> stale_cache.value,
          meta |-> Meta("cache", "stale_served", TRUE, stale_cache, ttl),
          errors |-> <<[msg |-> "served stale cache because refresh failed", exc |-> exc]>>]
    ELSE [py |-> "raise", error |-> "MapDataUnavailableError", layer_key |-> layer_key,
          msg |-> "Unable to fetch layer and no stale cache available", cause |-> None]

\* An except branch that serves the stale entry without saying why
RefreshFailed_NoErrors(layer_key, stale_cache, exc, ttl) ==
    IF stale_cache # None
    THEN [py |-> "dict", layer |-> layer_key, data |-> stale_cache.value,
          meta |-> Meta("cache", "stale_served", TRUE, stale_cache, ttl),
          errors |-> << >>]
    ELSE [py |-> "raise", error |-> "MapDataUnavailableError", layer_key |-> layer_key,
          msg |-> "Unable to fetch layer and no stale cache available", cause |-> exc]

\* The except branch of get_layer: exc is the exception caught
RefreshFailed(layer_key, stale_cache, exc, ttl) ==
    IF stale_cache # None
    THEN [py |-> "dict", layer |-> layer_key, data |-> stale_cache.value,
          meta |-> Meta("cache", "stale_served", TRUE, stale_cache, ttl),
          errors |-> <<[msg |-> "served stale cache because refresh failed", exc |-> exc]>>]
    ELSE [py |-> "raise", error |-> "MapDataUnavailableError", layer_key |-> layer_key,
          msg |-> "Unable to fetch layer and no stale cache available", cause |-> exc]

\* A get_layer that empties the memory tier when the live fetch fails
get_layer_ClearsOnFailure(mem, dsk, st, errs, ttl, t, layer_key, force_refresh, response, outcome) ==
    LET key == cache_key(layer_key)
        first == IF force_refresh
                 THEN [memory |-> mem, stats |-> st, result |-> None]
                 ELSE CacheGet(mem, dsk, st, ttl, t, key, TRUE)
        cached == first.result
    IN  IF cached # None /\ cached.fresh
        THEN [memory |-> first.memory, disk |-> dsk, stats |-> first.stats,
              layer_error_count |-> errs, called |-> 0,
              result |-> [py |-> "dict", layer |-> layer_key, data |-> cached.value,
                          meta |-> Meta("cache", "hit", FALSE, cached, ttl),
                          errors |-> << >>]]
        ELSE
        LET second == IF cached # None THEN first
                      ELSE CacheGet(first.memory, dsk, first.stats, ttl, t, key, TRUE)
            stale_cache == second.result
            live_value == _fetch_live_layer(layer_key, response)
            called == IF layer_key \in DOMAIN LAYER_CONFIG THEN 1 ELSE 0
            stored == CacheSet(second.memory, dsk, second.stats, t, key, live_value, outcome)
        IN  IF live_value.py = "raise"
            THEN [memory |-> [k \in DOMAIN mem |-> None], disk |-> dsk,
                  stats |-> mark_refresh_failure(second.stats),
                  layer_error_count |-> [errs EXCEPT ![layer_key] = @ + 1],
                  called |-> called,
                  result |-> RefreshFailed(layer_key, stale_cache, live_value, ttl)]
            ELSE IF stored.result.py = "raise"
            THEN [memory |-> stored.memory, disk |-> stored.disk,
                  stats |-> mark_refresh_failure(stored.stats),
                  layer_error_count |-> [errs EXCEPT ![layer_key] = @ + 1],
                  called |-> called,
                  result |-> RefreshFailed(layer_key, stale_cache, stored.result, ttl)]
            ELSE [memory |-> stored.memory, disk |-> stored.disk, stats |-> stored.stats,
                  layer_error_count |-> errs, called |-> called,
                  result |-> [py |-> "dict", layer |-> layer_key, data |-> stored.result.value,
                              meta |-> Meta("live", "miss_refresh", FALSE, stored.result, ttl),
                              errors |-> << >>]]

\* get_layer run without interruption, entered at time t. response is what the fetch
\* collaborator does if it is called, outcome what the disk does if the cache writes.
\* Yields the state left behind, the result, and
\* called: how many times the fetch collaborator was called.
get_layer(mem, dsk, st, errs, ttl, t, layer_key, force_refresh, response, outcome) ==
    LET key == cache_key(layer_key)
        first == IF force_refresh
                 THEN [memory |-> mem, stats |-> st, result |-> None]
                 ELSE CacheGet(mem, dsk, st, ttl, t, key, TRUE)
        cached == first.result
    IN  IF cached # None /\ cached.fresh
        THEN [memory |-> first.memory, disk |-> dsk, stats |-> first.stats,
              layer_error_count |-> errs, called |-> 0,
              result |-> [py |-> "dict", layer |-> layer_key, data |-> cached.value,
                          meta |-> Meta("cache", "hit", FALSE, cached, ttl),
                          errors |-> << >>]]
        ELSE
        LET second == IF cached # None THEN first
                      ELSE CacheGet(first.memory, dsk, first.stats, ttl, t, key, TRUE)
            stale_cache == second.result
            live_value == _fetch_live_layer(layer_key, response)
            called == IF layer_key \in DOMAIN LAYER_CONFIG THEN 1 ELSE 0
            stored == CacheSet(second.memory, dsk, second.stats, t, key, live_value, outcome)
        IN  IF live_value.py = "raise"
            THEN [memory |-> second.memory, disk |-> dsk,
                  stats |-> mark_refresh_failure(second.stats),
                  layer_error_count |-> [errs EXCEPT ![layer_key] = @ + 1],
                  called |-> called,
                  result |-> RefreshFailed(layer_key, stale_cache, live_value, ttl)]
            ELSE IF stored.result.py = "raise"
            THEN [memory |-> stored.memory, disk |-> stored.disk,
                  stats |-> mark_refresh_failure(stored.stats),
                  layer_error_count |-> [errs EXCEPT ![layer_key] = @ + 1],
                  called |-> called,
                  result |-> RefreshFailed(layer_key, stale_cache, stored.result, ttl)]
            ELSE [memory |-> stored.memory, disk |-> stored.disk, stats |-> stored.stats,
                  layer_error_count |-> errs, called |-> called,
                  result |-> [py |-> "dict", layer |-> layer_key, data |-> stored.result.value,
                              meta |-> Meta("live", "miss_refresh", FALSE, stored.result, ttl),
                              errors |-> << >>]]

----------------------------------------------------------------------------
(* Inputs of the model *)

Str(s) == [py |-> "str", s |-> s, numeric |-> FALSE, v |-> 0]
NumStr(v) == [py |-> "str", s |-> "digits", numeric |-> TRUE, v |-> v]
Float(v) == [py |-> "float", v |-> v]

Feature(geometry, properties) == [type |-> "Feature", geometry |-> geometry, properties |-> properties]

PolygonA == Feature([type |-> "Polygon", coordinates |-> "a"], [descriptiv |-> Str("Downtown"), neighbourh |-> Float(1)])
PolygonB == Feature([type |-> "MultiPolygon", coordinates |-> "b"], [descriptiv |-> Str("Oliver")])
PointP == Feature([type |-> "Point", coordinates |-> "p"], [elevation |-> NumStr(7)])
PointQ == Feature([type |-> "Point", coordinates |-> "q"], [elevation |-> Str("n/a")])
LineL == Feature([type |-> "LineString", coordinates |-> "l"], None)
NoGeometry == Feature(None, [descriptiv |-> Str("Nowhere")])

FeatureCollection(features) == [py |-> "dict", type |-> "FeatureCollection", features |-> features]

\* What the fetch collaborator may do when called
Responses ==
    {[py |-> "raise", error |-> "HTTPError", msg |-> "upstream unavailable"],
     [py |-> "dict", type |-> "Feature", features |-> <<PolygonA>>],
     FeatureCollection(<<PolygonA, PointP, NoGeometry>>),
     FeatureCollection(<<PointQ, LineL, PolygonB>>),
     FeatureCollection(<<LineL, NoGeometry>>)}

\* Layer keys get_layer is called with: a configured layer and an unknown one
Layers == {"neighborhoods", "parks"}

Keys == {cache_key(l) : l \in Layers}

Idle == [pc |-> "idle"]
\* No cache call made yet
InitCalls == [gets |-> 0, stored |-> 0, marks |-> 0]
Threads == {"t1", "t2"}

----------------------------------------------------------------------------
(* The service used by one caller at a time *)

Init ==
    /\ now = 1
    /\ ttl_seconds \in 0..MaxTTL
    /\ memory = [k \in Keys |-> None]
    /\ disk = [k \in Keys |-> NoFile]
    /\ stats = InitStats
    /\ layer_error_count = [l \in Layers |-> 0]
    /\ fetches = 0
    /\ ops = 0
    /\ last = [op |-> "none"]
    /\ threads = [th \in Threads |-> Idle]
    /\ lock = "free"
    /\ calls = InitCalls

\* The entry a cache lookup would find for a key: memory first, then disk
Lookup(mem, dsk, key) == IF mem[key] # None THEN mem[key] ELSE _load_disk_entry(dsk, key)

\* One call of get_layer. last records the call: when it ran (at), the entry the cache
\* held for the layer when it was entered (before), what the live fetch did if the call
\* got that far (live), the calls made to the fetch collaborator (called), whether the
\* cache was written (wrote), and the result.
GetLayer(layer_key, force_refresh, response, outcome) ==
    \E r \in {get_layer(memory, disk, stats, layer_error_count, ttl_seconds, now,
                        layer_key, force_refresh, response, outcome)},
       before \in {Lookup(memory, disk, cache_key(layer_key))},
       live \in {_fetch_live_layer(layer_key, response)} :
    LET hit == ~force_refresh /\ before # None /\ now - before.fetched_at <= ttl_seconds
    IN  /\ ops < MaxOps
        /\ ops' = ops + 1
        /\ memory' = r.memory
        /\ disk' = r.disk
        /\ stats' = r.stats
        /\ layer_error_count' = r.layer_error_count
        /\ fetches' = fetches + r.called
        /\ last' = [op |-> "get_layer", at |-> now, layer_key |-> layer_key,
                    force_refresh |-> force_refresh, before |-> before,
                    live |-> IF hit THEN "not attempted"
                             ELSE IF live.py = "raise" THEN live.error ELSE "ok",
                    called |-> r.called,
                    wrote |-> (r.stats.writes # stats.writes \/ r.disk # disk),
                    result |-> r.result]
        /\ UNCHANGED <<now, ttl_seconds, threads, lock, calls>>

\* time.time() advances
Tick ==
    /\ now < MaxTime
    /\ now' = now + 1
    /\ UNCHANGED <<ttl_seconds, memory, disk, stats, layer_error_count, fetches, ops, last, threads, lock, calls>>

\* The process is restarted: a new service with an empty memory tier over the same directory
Restart ==
    /\ ops < MaxOps
    /\ \A th \in Threads : threads[th] = Idle
    /\ \E k \in Keys : memory[k] # None
    /\ memory' = [k \in Keys |-> None]
    /\ stats' = InitStats
    /\ layer_error_count' = [l \in Layers |-> 0]
    /\ last' = [op |-> "restart"]
    /\ UNCHANGED <<now, ttl_seconds, disk, fetches, ops, threads, lock, calls>>

Next ==
    \/ \E l \in Layers, f \in BOOLEAN, r \in Responses, o \in WriteOutcomes :
           GetLayer(l, f, r, o)
    \/ Tick
    \/ Restart

Spec == Init /\ [][Next]_vars

----------------------------------------------------------------------------
(* Properties of get_layer, checked under Spec *)

Configured(layer_key) == layer_key \in {"neighborhoods", "sidewalks", "winter_routes", "trail_closures", "elevation_spots"}

IsGetLayer == last.op = "get_layer"

\* The live fetch or the normalisation of the last get_layer call failed
FetchFailed == IsGetLayer /\ last.live \notin {"not attempted", "ok"}

\* The entry a get_layer call found was older than the TTL when the call ran
WasStale == last.before # None /\ last.at - last.before.fetched_at > ttl_seconds

\* C1: get_layer raises the layer-unavailable error for a layer only if, at the moment
\* it raises, neither the memory tier nor the disk tier holds a usable (fresh or stale)
\* entry for that layer's key.
C1_UnavailableOnlyIfNothingCached ==
    (IsGetLayer /\ last.result.py = "raise")
        => Lookup(memory, disk, cache_key(last.layer_key)) = None

\* C2: when the live fetch or normalisation fails and a stale cached value exists for
\* the layer, get_layer does not raise: it returns exactly that value with stale = true,
\* cache_event = "stale_served", source = "cache" and a non-empty errors list that
\* carries the cause.
C2_StaleServedOnFetchFailure ==
    (FetchFailed /\ WasStale)
        => /\ last.result.py = "dict"
           /\ last.result.layer = last.layer_key
           /\ last.result.data = last.before.value
           /\ last.result.meta.stale = TRUE
           /\ last.result.meta.cache_event = "stale_served"
           /\ last.result.meta.source = "cache"
           /\ Len(last.result.errors) >= 1
           /\ last.result.errors[1].exc.py = "raise"
           /\ last.result.errors[1].exc.error = last.live

C2_Witness ==
    /\ FetchFailed /\ WasStale
    /\ last.result.py = "dict"
    /\ last.result.meta.cache_event = "stale_served"
    /\ last.force_refresh

\* C3: when the live fetch or normalisation fails and no cached value exists for the
\* layer in either tier, get_layer raises the layer-unavailable error, which names the
\* layer key and carries the underlying cause.
C3_UnavailableWhenNothingCached ==
    (FetchFailed /\ last.before = None)
        => /\ last.result.py = "raise"
           /\ last.result.error = "MapDataUnavailableError"
           /\ last.result.layer_key = last.layer_key
           /\ last.result.cause.py = "raise"
           /\ last.result.cause.error = last.live

C3_Witness ==
    /\ FetchFailed /\ last.before = None
    /\ last.layer_key = "neighborhoods"
    /\ last.live = "ValueError"
    /\ last.result.py = "raise"

\* A step of get_layer, seen from the state it starts in: hit says that the call is
\* not forced and that the cache holds an entry for the layer no older than the TTL
GetLayerStep(P(_, _)) ==
    (ops' = ops + 1 /\ last'.op = "get_layer")
        => LET e == Lookup(memory, disk, cache_key(last'.layer_key))
               hit == ~last'.force_refresh /\ e # None /\ now - e.fetched_at <= ttl_seconds
           IN  P(e, hit)

C4_HitAnswer(e, hit) ==
    hit => /\ last'.result.py = "dict"
           /\ last'.result.data = e.value
           /\ last'.result.meta.source = "cache"
           /\ last'.result.meta.cache_event = "hit"
           /\ last'.result.meta.stale = FALSE
           /\ last'.result.errors = << >>
           /\ fetches' = fetches
           /\ stats'.writes = stats.writes
           /\ disk' = disk

C4_OriginalStep(e, hit) ==
    /\ fetches' - fetches \in {0, 1}
    /\ fetches' - fetches = 1 <=> ~hit
    /\ C4_HitAnswer(e, hit)

C4_AmendedStep(e, hit) ==
    /\ fetches' - fetches \in {0, 1}
    /\ fetches' - fetches = 1 <=> (~hit /\ Configured(last'.layer_key))
    /\ C4_HitAnswer(e, hit)

NoFetchOutsideGetLayer == fetches' # fetches => (ops' = ops + 1 /\ last'.op = "get_layer")

\* C4 as stated: a get_layer call invokes the fetch collaborator at most once, and
\* invokes it if and only if force_refresh is true or the cache lookup did not return a
\* fresh entry; a non-forced call that finds a fresh entry answers from the cache as a
\* hit with no fetch and no cache write; no fetch happens outside a get_layer call.
C4_Original == [][GetLayerStep(C4_OriginalStep) /\ NoFetchOutsideGetLayer]_vars

\* C4 amended: the same, except that the fetch collaborator is invoked if and only if
\* the layer key is one of the layer configuration and (force_refresh is true or the
\* lookup did not return a fresh entry); for an unknown layer key it is never invoked.
C4_FetchOnlyOnRefresh == [][GetLayerStep(C4_AmendedStep) /\ NoFetchOutsideGetLayer]_vars

C4_Witness ==
    /\ IsGetLayer /\ ~last.force_refresh
    /\ last.before # None /\ last.at - last.before.fetched_at <= ttl_seconds
    /\ last.result.py = "dict" /\ last.result.meta.cache_event = "hit"
    /\ last.called = 0
    /\ fetches = 1

\* C5: when the live fetch and the normalisation of a get_layer call succeed, the
\* normalised value is written to the cache and returned with source = "live",
\* cache_event = "miss_refresh", stale = false and no errors (so that a following
\* non-forced call within the TTL is a hit on that value).
C5_LiveValueReturned ==
    (IsGetLayer /\ last.live = "ok")
        => /\ last.result.py = "dict"
           /\ last.result.meta.source = "live"
           /\ last.result.meta.cache_event = "miss_refresh"
           /\ last.result.meta.stale = FALSE
           /\ last.result.errors = << >>
           /\ memory[cache_key(last.layer_key)] # None
           /\ memory[cache_key(last.layer_key)].value = last.result.data

\* C16: every result returned by get_layer carries a meta with source, cache_event,
\* stale, age, fetch timestamp, TTL and duration, and its (source, cache_event, stale,
\* errors) is one of exactly three combinations: (cache, hit, false, empty),
\* (live, miss_refresh, false, empty) or (cache, stale_served, true, non-empty).
C16_MetaShape ==
    (IsGetLayer /\ last.result.py = "dict")
        => /\ DOMAIN last.result.meta = {"source", "cache_event", "stale", "age_seconds",
                                         "fetched_at", "ttl_seconds", "duration_ms"}
           /\ <<last.result.meta.source, last.result.meta.cache_event,
                last.result.meta.stale, last.result.errors = << >> >>
                \in {<<"cache", "hit", FALSE, TRUE>>,
                     <<"live", "miss_refresh", FALSE, TRUE>>,
                     <<"cache", "stale_served", TRUE, FALSE>>}

\* A forced refresh has failed and was answered with the entry the cache held
C16_Witness ==
    /\ IsGetLayer /\ last.force_refresh /\ FetchFailed
    /\ last.result.py = "dict"
    /\ last.result.meta.cache_event = "stale_served"
    /\ last.result.errors # << >>

----------------------------------------------------------------------------
(* The cache used directly by one caller at a time *)

\* Values stored with set
CacheValues == {FeatureCollection(<< >>), FeatureCollection(<<PolygonA>>)}

\* Files an earlier process may have left in the cache directory that no set wrote:
\* a record with a non-positive timestamp, a record whose value is not an object,
\* a record without a timestamp and a file cut short
ForeignFiles ==
    {JsonFile(0, FeatureCollection(<< >>)), JsonFile(1, [py |-> "list"]),
     [file |-> "json", value |-> FeatureCollection(<< >>)], GarbageFile}

\* The record an earlier process of the service wrote for a layer with set
EarlierFileOf(layer_key) ==
    DumpPayload(1, _normalize_layer(layer_key, FeatureCollection(<<PolygonA, PointP>>)))

EarlierFile == EarlierFileOf("neighborhoods")

InitCache ==
    /\ now = 1
    /\ ttl_seconds \in (-1)..MaxTTL
    /\ memory = [k \in Keys |-> None]
    /\ disk \in {d \in [Keys -> {NoFile, EarlierFile} \cup ForeignFiles] :
                    \A k \in Keys \ {cache_key("neighborhoods")} : d[k] = NoFile}
    /\ stats = InitStats
    /\ layer_error_count = [l \in Layers |-> 0]
    /\ fetches = 0
    /\ ops = 0
    /\ last = [op |-> "none"]
    /\ threads = [th \in Threads |-> Idle]
    /\ lock = "free"
    /\ calls = InitCalls

\* One call of LayerCache.get. last records the entry the cache held for the key
\* (before) and, when the call directly follows a set of the same key, the value of
\* that set (follows_set).
Get(key, allow_stale) ==
    LET r == CacheGet(memory, disk, stats, ttl_seconds, now, key, allow_stale)
    IN  /\ ops < MaxOps
        /\ ops' = ops + 1
        /\ memory' = r.memory
        /\ stats' = r.stats
        /\ last' = [op |-> "get", at |-> now, key |-> key, allow_stale |-> allow_stale,
                    before |-> Lookup(memory, disk, key),
                    follows_set |-> IF last.op = "set" /\ last.key = key THEN last.value ELSE None,
                    result |-> r.result]
        /\ UNCHANGED <<now, ttl_seconds, disk, layer_error_count, fetches, threads, lock, calls>>

\* One call of LayerCache.set
Set(key, value, outcome) ==
    LET r == CacheSet(memory, disk, stats, now, key, value, outcome)
    IN  /\ ops < MaxOps
        /\ ops' = ops + 1
        /\ memory' = r.memory
        /\ disk' = r.disk
        /\ stats' = r.stats
        /\ last' = [op |-> "set", at |-> now, key |-> key, value |-> value,
                    outcome |-> outcome, result |-> r.result]
        /\ UNCHANGED <<now, ttl_seconds, layer_error_count, fetches, threads, lock, calls>>

MarkRefreshFailure ==
    /\ ops < MaxOps
    /\ ops' = ops + 1
    /\ stats' = mark_refresh_failure(stats)
    /\ last' = [op |-> "mark_refresh_failure", at |-> now]
    /\ UNCHANGED <<now, ttl_seconds, memory, disk, layer_error_count, fetches, threads, lock, calls>>

Stats ==
    /\ ops < MaxOps
    /\ ops' = ops + 1
    /\ last' = [op |-> "stats", at |-> now, result |-> stats]
    /\ UNCHANGED <<now, ttl_seconds, memory, disk, stats, layer_error_count, fetches, threads, lock, calls>>

NextCache ==
    \/ \E k \in Keys, a \in BOOLEAN : Get(k, a)
    \/ \E k \in Keys, v \in CacheValues, o \in WriteOutcomes : Set(k, v, o)
    \/ MarkRefreshFailure
    \/ Stats
    \/ Tick
    \/ Restart

SpecCache == InitCache /\ [][NextCache]_vars

----------------------------------------------------------------------------
(* Properties of LayerCache.get and LayerCache.set, checked under SpecCache *)

\* The age, when the last get ran, of the entry it found
AgeSeen == last.at - last.before.fetched_at

\* C6: for every TTL T and every age a of a stored entry, get reports fresh = true
\* exactly when a <= T and stale = true exactly when a > T; fresh and stale are each
\* other's negation.
C6_FreshIffWithinTTL ==
    (last.op = "get" /\ last.before # None /\ last.allow_stale)
        => /\ last.result.py = "dict"
           /\ last.result.fresh = (AgeSeen <= ttl_seconds)
           /\ last.result.stale = (AgeSeen > ttl_seconds)
           /\ last.result.stale = ~last.result.fresh

C6_Witness ==
    /\ last.op = "get" /\ last.before # None /\ last.allow_stale
    /\ ttl_seconds = 1 /\ AgeSeen = 1
    /\ last.result.fresh = TRUE
    /\ stats.writes >= 1

\* A step of LayerCache.get, seen from the state it starts in: e is the entry the
\* cache holds for the key
CacheGetStep(P(_)) ==
    (ops' = ops + 1 /\ last'.op = "get") => P(Lookup(memory, disk, last'.key))

C7_StaleStep(e) ==
    (e # None /\ now - e.fetched_at > ttl_seconds)
        => /\ ~last'.allow_stale => last'.result = None
           /\ last'.allow_stale => /\ last'.result.py = "dict"
                                   /\ last'.result.value = e.value
                                   /\ last'.result.stale = TRUE
                                   /\ last'.result.fresh = FALSE
           /\ memory'[last'.key] = e
           /\ \A k \in Keys : k # last'.key => memory'[k] = memory[k]
           /\ disk' = disk

\* C7: for an entry older than the TTL, get(key, allow_stale = false) returns None and
\* get(key, allow_stale = true) returns its value with stale = true and fresh = false;
\* neither call removes or alters the entry.
C7_StaleRejectedOrServed == [][CacheGetStep(C7_StaleStep)]_vars

C7_Witness ==
    /\ last.op = "get" /\ ~last.allow_stale
    /\ last.before # None /\ AgeSeen > ttl_seconds
    /\ last.result = None
    /\ memory[last.key] = last.before

\* C8: set(k, v) followed immediately by get(k) returns a value equal to v.
C8_SetThenGet ==
    (last.op = "get" /\ last.follows_set # None /\ last.allow_stale)
        => /\ last.result.py = "dict"
           /\ last.result.value = last.follows_set

C8_Witness ==
    /\ last.op = "get" /\ last.allow_stale
    /\ last.follows_set = FeatureCollection(<<PolygonA>>)
    /\ last.before # None /\ last.before.value = FeatureCollection(<<PolygonA>>)
    /\ last.result.py = "dict"
    /\ last.result.source = "memory"
    /\ last.at > last.before.fetched_at

\* C9: when the disk write inside set(k, v) fails, set still completes without an
\* observable failure and returns the fresh view, and v is in the memory tier for the
\* gets that follow.
C9_SetSurvivesDiskFailure ==
    (last.op = "set" /\ last.outcome # "ok")
        => /\ last.result.py = "dict"
           /\ last.result.fresh = TRUE
           /\ last.result.value = last.value
           /\ memory[last.key] # None
           /\ memory[last.key].value = last.value

----------------------------------------------------------------------------
(* The cache used by concurrent callers. Each step is one statement of get or set;  *)
(* a "with self._lock" block is one step, since the lock makes it atomic with       *)
(* respect to every other such block.                                               *)

\* The key the concurrent callers work on
ConcKeys == {cache_key("neighborhoods")}

\* The caller moves to pc; changes gives the locals it assigns (<< >> for none)
Goto(th, pc, changes) ==
    [threads EXCEPT ![th] = [f \in DOMAIN @ \cup DOMAIN changes |->
        IF f = "pc" THEN pc ELSE IF f \in DOMAIN changes THEN changes[f] ELSE @[f]]]

StartGet(th, key, allow_stale) ==
    /\ threads[th] = Idle
    /\ ops < MaxOps
    /\ ops' = ops + 1
    /\ threads' = [threads EXCEPT ![th] = [pc |-> "get_read_memory", key |-> key, allow_stale |-> allow_stale]]
    /\ UNCHANGED <<now, ttl_seconds, memory, disk, stats, layer_error_count, fetches, last, lock, calls>>

\* with self._lock: entry = self._memory.get(key)
GetReadMemory(th) ==
    /\ threads[th].pc = "get_read_memory"
    /\ threads' = Goto(th, IF memory[threads[th].key] = None THEN "get_load_disk" ELSE "get_count",
                       [entry |-> memory[threads[th].key], source |-> "memory"])
    /\ UNCHANGED <<now, ttl_seconds, memory, disk, stats, layer_error_count, fetches, ops, last, lock, calls>>

\* entry = self._load_disk_entry(key)
GetLoadDisk(th) ==
    /\ threads[th].pc = "get_load_disk"
    /\ LET entry == _load_disk_entry(disk, threads[th].key)
       IN  threads' = Goto(th, IF entry = None THEN "get_miss" ELSE "get_promote", [entry |-> entry])
    /\ UNCHANGED <<now, ttl_seconds, memory, disk, stats, layer_error_count, fetches, ops, last, lock, calls>>

\* with self._lock: self._memory[key] = entry
GetPromote(th) ==
    /\ threads[th].pc = "get_promote"
    /\ memory' = [memory EXCEPT ![threads[th].key] = threads[th].entry]
    /\ threads' = Goto(th, "get_count", [source |-> "disk"])
    /\ UNCHANGED <<now, ttl_seconds, disk, stats, layer_error_count, fetches, ops, last, lock, calls>>

\* with self._lock: self._stats["misses"] += 1; return None
GetMiss(th) ==
    /\ threads[th].pc = "get_miss"
    /\ stats' = Incr(stats, "misses")
    /\ last' = [op |-> "get", at |-> now, thread |-> th, key |-> threads[th].key,
                allow_stale |-> threads[th].allow_stale, result |-> None]
    /\ threads' = [threads EXCEPT ![th] = Idle]
    /\ UNCHANGED <<now, ttl_seconds, memory, disk, layer_error_count, fetches, ops, lock, calls>>

\* fresh = entry.is_fresh(self.ttl_seconds), the counter of the case, and the return
GetCount(th) ==
    /\ threads[th].pc = "get_count"
    /\ LET entry == threads[th].entry
           fresh == is_fresh(entry, ttl_seconds, now)
       IN  /\ stats' = Incr(stats, IF fresh THEN "hits" ELSE "stale_hits")
           /\ last' = [op |-> "get", at |-> now, thread |-> th, key |-> threads[th].key,
                       allow_stale |-> threads[th].allow_stale,
                       result |-> IF ~fresh /\ ~threads[th].allow_stale THEN None
                                  ELSE View(entry, fresh, now, threads[th].source)]
    /\ threads' = [threads EXCEPT ![th] = Idle]
    /\ UNCHANGED <<now, ttl_seconds, memory, disk, layer_error_count, fetches, ops, lock, calls>>

\* now = time.time(); entry = CacheEntry(value=value, fetched_at=now)
StartSet(th, key, value, outcome) ==
    /\ threads[th] = Idle
    /\ ops < MaxOps
    /\ ops' = ops + 1
    /\ threads' = [threads EXCEPT ![th] = [pc |-> "set_store", key |-> key, value |-> value,
                                           outcome |-> outcome, now |-> now]]
    /\ UNCHANGED <<now, ttl_seconds, memory, disk, stats, layer_error_count, fetches, last, lock, calls>>

\* with self._lock: self._memory[key] = entry; self._stats["writes"] += 1
SetStore(th) ==
    /\ threads[th].pc = "set_store"
    /\ memory' = [memory EXCEPT ![threads[th].key] = CacheEntry(threads[th].value, threads[th].now)]
    /\ stats' = Incr(stats, "writes")
    /\ threads' = Goto(th, "set_open", << >>)
    /\ UNCHANGED <<now, ttl_seconds, disk, layer_error_count, fetches, ops, last, lock, calls>>

SetRaise(th) ==
    [op |-> "set", at |-> threads[th].now, thread |-> th, key |-> threads[th].key,
     value |-> threads[th].value, outcome |-> threads[th].outcome,
     result |-> [py |-> "raise", error |-> "OSError", msg |-> threads[th].outcome]]

\* path.write_text, first half: open(mode="w") fails, or truncates the file
SetOpen(th) ==
    /\ threads[th].pc = "set_open"
    /\ IF threads[th].outcome = "open_fails"
       THEN /\ last' = SetRaise(th)
            /\ threads' = [threads EXCEPT ![th] = Idle]
            /\ UNCHANGED disk
       ELSE /\ disk' = [disk EXCEPT ![threads[th].key] = GarbageFile]
            /\ threads' = Goto(th, "set_write", << >>)
            /\ UNCHANGED last
    /\ UNCHANGED <<now, ttl_seconds, memory, stats, layer_error_count, fetches, ops, lock, calls>>

\* path.write_text, second half: the payload reaches the file, or the write fails;
\* then the return of the fresh view
SetWrite(th) ==
    /\ threads[th].pc = "set_write"
    /\ IF threads[th].outcome = "write_fails"
       THEN /\ last' = SetRaise(th)
            /\ UNCHANGED disk
       ELSE /\ disk' = [disk EXCEPT ![threads[th].key] = DumpPayload(threads[th].now, threads[th].value)]
            /\ last' = [op |-> "set", at |-> threads[th].now, thread |-> th, key |-> threads[th].key,
                        value |-> threads[th].value, outcome |-> threads[th].outcome,
                        result |-> [py |-> "dict", value |-> threads[th].value, fresh |-> TRUE,
                                    stale |-> FALSE, age_seconds |-> 0,
                                    fetched_at |-> threads[th].now, source |-> "live"]]
    /\ threads' = [threads EXCEPT ![th] = Idle]
    /\ UNCHANGED <<now, ttl_seconds, memory, stats, layer_error_count, fetches, ops, lock, calls>>

NextConc ==
    \/ \E th \in Threads, k \in ConcKeys, a \in BOOLEAN : StartGet(th, k, a)
    \/ \E th \in Threads : GetReadMemory(th)
    \/ \E th \in Threads : GetLoadDisk(th)
    \/ \E th \in Threads : GetPromote(th)
    \/ \E th \in Threads : GetMiss(th)
    \/ \E th \in Threads : GetCount(th)
    \/ \E th \in Threads, k \in ConcKeys, v \in CacheValues, o \in WriteOutcomes : StartSet(th, k, v, o)
    \/ \E th \in Threads : SetStore(th)
    \/ \E th \in Threads : SetOpen(th)
    \/ \E th \in Threads : SetWrite(th)
    \/ Tick
    \/ Restart

SpecConc == Init /\ [][NextConc]_vars

\* C10: in every reachable state, under any interleaving of concurrent get and set
\* calls on the same key, a memory-tier entry for a key has fetched_at greater than or
\* equal to the fetched_at of the disk-tier entry for that key.
C10_MemoryAtLeastAsFreshAsDisk ==
    \A k \in Keys :
        (memory[k] # None /\ _load_disk_entry(disk, k) # None)
            => memory[k].fetched_at >= _load_disk_entry(disk, k).fetched_at

----------------------------------------------------------------------------
(* The cache used by concurrent callers, with the lock and the counters spelled out. *)
(* "with self._lock" is a step that takes the lock when no caller holds it; the      *)
(* block's last statement gives it back. "self._stats[name] += 1" is two steps, the  *)
(* read of the counter and the store of the sum, as the interpreter runs them.       *)

InitLock ==
    /\ now = 1
    /\ ttl_seconds = MaxTTL
    /\ memory = [k \in Keys |-> None]
    /\ disk \in {d \in [Keys -> {NoFile, EarlierFile}] : \A k \in Keys \ ConcKeys : d[k] = NoFile}
    /\ stats = InitStats
    /\ layer_error_count = [l \in Layers |-> 0]
    /\ fetches = 0
    /\ ops = 0
    /\ last = [op |-> "none"]
    /\ threads = [th \in Threads |-> Idle]
    /\ lock = "free"
    /\ calls = InitCalls

\* A lock that any caller may take at any time
LockFree_Unguarded(l) == TRUE

\* threading.Lock: acquire succeeds only when no caller holds the lock
LockFree(l) == l = "free"

\* The statement each "with self._lock" leads to
LockedBlock ==
    [get_lock |-> "get_read", promote_lock |-> "promote", count_lock |-> "count_load",
     set_lock |-> "set_store", stats_lock |-> "stats_copy"]

\* The value the concurrent callers store
StoredValue == FeatureCollection(<<PolygonA>>)

\* A call of get, set, mark_refresh_failure or stats begins
Call(th, frame) ==
    /\ threads[th] = Idle
    /\ ops < MaxOps
    /\ ops' = ops + 1
    /\ threads' = [threads EXCEPT ![th] = frame]
    /\ UNCHANGED <<now, ttl_seconds, memory, disk, stats, layer_error_count, fetches, last, lock, calls>>

CallGet(th, key, allow_stale) ==
    /\ Call(th, [pc |-> "get_lock", op |-> "get", key |-> key, allow_stale |-> allow_stale])

\* now = time.time(); entry = CacheEntry(value=value, fetched_at=now)
CallSet(th, key, value, outcome) ==
    /\ Call(th, [pc |-> "set_lock", op |-> "set", key |-> key, value |-> value,
                 outcome |-> outcome, now |-> now])

CallMarkRefreshFailure(th) ==
    /\ Call(th, [pc |-> "count_lock", op |-> "mark_refresh_failure", counter |-> "refresh_failures"])

CallStats(th) ==
    /\ Call(th, [pc |-> "stats_lock", op |-> "stats"])

\* with self._lock:
Acquire(th) ==
    /\ threads[th].pc \in DOMAIN LockedBlock
    /\ LockFree(lock)
    /\ lock' = th
    /\ threads' = Goto(th, LockedBlock[threads[th].pc], << >>)
    /\ UNCHANGED <<now, ttl_seconds, memory, disk, stats, layer_error_count, fetches, ops, last, calls>>

\* A read of memory that does not give the lock back
LockedGetRead_KeepsLock(th) ==
    /\ threads[th].pc = "get_read"
    /\ threads' = Goto(th, IF memory[threads[th].key] = None THEN "get_disk" ELSE "get_fresh",
                       [entry |-> memory[threads[th].key], source |-> "memory"])
    /\ UNCHANGED <<now, ttl_seconds, memory, disk, stats, layer_error_count, fetches, ops, last, lock, calls>>

\* entry = self._memory.get(key), end of the block
LockedGetRead(th) ==
    /\ threads[th].pc = "get_read"
    /\ lock' = "free"
    /\ threads' = Goto(th, IF memory[threads[th].key] = None THEN "get_disk" ELSE "get_fresh",
                       [entry |-> memory[threads[th].key], source |-> "memory"])
    /\ UNCHANGED <<now, ttl_seconds, memory, disk, stats, layer_error_count, fetches, ops, last, calls>>

\* entry = self._load_disk_entry(key)
LockedGetDisk(th) ==
    /\ threads[th].pc = "get_disk"
    /\ LET entry == _load_disk_entry(disk, threads[th].key)
       IN  threads' = IF entry = None
                      THEN Goto(th, "count_lock", [counter |-> "misses", result |-> None])
                      ELSE Goto(th, "promote_lock", [entry |-> entry])
    /\ UNCHANGED <<now, ttl_seconds, memory, disk, stats, layer_error_count, fetches, ops, last, lock, calls>>

\* self._memory[key] = entry, end of the block; source = "disk"
LockedPromote(th) ==
    /\ threads[th].pc = "promote"
    /\ memory' = [memory EXCEPT ![threads[th].key] = threads[th].entry]
    /\ lock' = "free"
    /\ threads' = Goto(th, "get_fresh", [source |-> "disk"])
    /\ UNCHANGED <<now, ttl_seconds, disk, stats, layer_error_count, fetches, ops, last, calls>>

\* fresh = entry.is_fresh(self.ttl_seconds); the counter to bump and the value to return
LockedGetFresh(th) ==
    /\ threads[th].pc = "get_fresh"
    /\ LET entry == threads[th].entry
           fresh == is_fresh(entry, ttl_seconds, now)
       IN  threads' = Goto(th, "count_lock",
                [counter |-> IF fresh THEN "hits" ELSE "stale_hits",
                 result |-> IF ~fresh /\ ~threads[th].allow_stale THEN None
                            ELSE View(entry, fresh, now, threads[th].source)])
    /\ UNCHANGED <<now, ttl_seconds, memory, disk, stats, layer_error_count, fetches, ops, last, lock, calls>>

\* self._memory[key] = entry
LockedSetStore(th) ==
    /\ threads[th].pc = "set_store"
    /\ memory' = [memory EXCEPT ![threads[th].key] = CacheEntry(threads[th].value, threads[th].now)]
    /\ calls' = [calls EXCEPT !.stored = @ + 1]
    /\ threads' = Goto(th, "count_load", [counter |-> "writes"])
    /\ UNCHANGED <<now, ttl_seconds, disk, stats, layer_error_count, fetches, ops, last, lock>>

\* self._stats[counter] += 1, first half: the counter is read
CountLoad(th) ==
    /\ threads[th].pc = "count_load"
    /\ threads' = Goto(th, "count_store", [loaded |-> stats[threads[th].counter]])
    /\ UNCHANGED <<now, ttl_seconds, memory, disk, stats, layer_error_count, fetches, ops, last, lock, calls>>

\* self._stats[counter] += 1, second half: the sum is stored; end of the block.
\* get and mark_refresh_failure return here, set goes on to write the file.
CountStore(th) ==
    /\ threads[th].pc = "count_store"
    /\ stats' = [stats EXCEPT ![threads[th].counter] = threads[th].loaded + 1]
    /\ lock' = "free"
    /\ CASE threads[th].op = "get" ->
              /\ calls' = [calls EXCEPT !.gets = @ + 1]
              /\ last' = [op |-> "get", at |-> now, thread |-> th, key |-> threads[th].key,
                          allow_stale |-> threads[th].allow_stale, result |-> threads[th].result]
              /\ threads' = [threads EXCEPT ![th] = Idle]
         [] threads[th].op = "mark_refresh_failure" ->
              /\ calls' = [calls EXCEPT !.marks = @ + 1]
              /\ last' = [op |-> "mark_refresh_failure", at |-> now, thread |-> th]
              /\ threads' = [threads EXCEPT ![th] = Idle]
         [] threads[th].op = "set" ->
              /\ threads' = Goto(th, "set_open", << >>)
              /\ UNCHANGED <<calls, last>>
    /\ UNCHANGED <<now, ttl_seconds, memory, disk, layer_error_count, fetches, ops>>

\* return dict(self._stats), end of the block
LockedStatsCopy(th) ==
    /\ threads[th].pc = "stats_copy"
    /\ lock' = "free"
    /\ last' = [op |-> "stats", at |-> now, thread |-> th, result |-> stats]
    /\ threads' = [threads EXCEPT ![th] = Idle]
    /\ UNCHANGED <<now, ttl_seconds, memory, disk, stats, layer_error_count, fetches, ops, calls>>

NextLock ==
    \/ \E th \in Threads, k \in ConcKeys, a \in BOOLEAN : CallGet(th, k, a)
    \/ \E th \in Threads, k \in ConcKeys, o \in WriteOutcomes : CallSet(th, k, StoredValue, o)
    \/ \E th \in Threads : CallMarkRefreshFailure(th)
    \/ \E th \in Threads : CallStats(th)
    \/ \E th \in Threads : Acquire(th)
    \/ \E th \in Threads : LockedGetRead(th)
    \/ \E th \in Threads : LockedGetDisk(th)
    \/ \E th \in Threads : LockedPromote(th)
    \/ \E th \in Threads : LockedGetFresh(th)
    \/ \E th \in Threads : LockedSetStore(th)
    \/ \E th \in Threads : CountLoad(th)
    \/ \E th \in Threads : CountStore(th)
    \/ \E th \in Threads : LockedStatsCopy(th)
    \/ \E th \in Threads : SetOpen(th)
    \/ \E th \in Threads : SetWrite(th)
    \/ Tick

SpecLock == InitLock /\ [][NextLock]_vars

\* The callers that have stored to memory and not yet counted the write
CountingWrite == {th \in Threads : threads[th].pc \in {"count_load", "count_store"} /\ threads[th].op = "set"}

\* C11: under any interleaving of concurrent get, set, mark_refresh_failure and stats
\* calls on one cache, no counter update is lost: hits + misses + stale_hits is the
\* number of completed get calls, writes is the number of set calls that stored to
\* memory (less those still inside the block that stores and counts), and
\* refresh_failures is the number of mark_refresh_failure calls made.
C11_NoCounterUpdateLost ==
    /\ stats["hits"] + stats["misses"] + stats["stale_hits"] = calls.gets
    /\ stats["writes"] + Cardinality(CountingWrite) = calls.stored
    /\ stats["refresh_failures"] = calls.marks

\* A caller is between the read and the store of a counter while the other caller
\* waits for the lock to bump the same counter
C11_Witness ==
    \E a, b \in Threads :
        /\ a # b
        /\ lock = a
        /\ threads[a].pc = "count_store"
        /\ threads[b].pc = "count_lock"
        /\ threads[b].counter = threads[a].counter

----------------------------------------------------------------------------
(* Counters and tiers of LayerCache, checked under SpecCache *)

\* The counters after one of them went up by one
Bumped(name) == [stats EXCEPT ![name] = @ + 1]

\* The counter a get bumps when the cache holds entry e for the key
C12_CounterOfGet(e) ==
    stats' = Bumped(IF e = None THEN "misses"
                    ELSE IF now - e.fetched_at <= ttl_seconds THEN "hits" ELSE "stale_hits")

C12_Step ==
    /\ CacheGetStep(C12_CounterOfGet)
    /\ (ops' = ops + 1 /\ last'.op = "set") => stats' = Bumped("writes")
    /\ (ops' = ops + 1 /\ last'.op = "mark_refresh_failure") => stats' = Bumped("refresh_failures")
    /\ last'.op # "restart" => \A n \in StatNames : stats'[n] >= stats[n]

\* C12: every get increments exactly one counter by one (misses if no entry exists in
\* either tier, hits if the entry is fresh, stale_hits if it is stale, whether or not
\* allow_stale is set), every set increments only writes, every mark_refresh_failure
\* increments only refresh_failures, and no operation of a cache decreases a counter.
C12_OneCounterPerCall == [][C12_Step]_vars

\* A get that rejected a stale entry has counted a stale hit and nothing else
C12_Witness ==
    /\ last.op = "get" /\ ~last.allow_stale
    /\ last.before # None /\ last.result = None
    /\ stats = [InitStats EXCEPT !["stale_hits"] = 1, !["writes"] = 1]

\* The disk record of a key cannot be used: cut short, without timestamp, stamped <= 0
Unusable(f) ==
    \/ f.file = "garbage"
    \/ f.file = "json" /\ "fetched_at" \notin DOMAIN f
    \/ f.file = "json" /\ "fetched_at" \in DOMAIN f /\ f.fetched_at <= 0

C13_Step ==
    (ops' = ops + 1 /\ last'.op = "get" /\ memory[last'.key] = None /\ Unusable(disk[last'.key]))
        => /\ last'.result = None
           /\ stats' = Bumped("misses")
           /\ memory' = memory
           /\ disk' = disk

\* C13: when a key has no memory entry and its disk record is unparseable, lacks a
\* timestamp, or has a timestamp <= 0, get treats the key as absent: it returns None,
\* increments misses, and does not populate the memory tier.
C13_BadDiskRecordIsAbsent == [][C13_Step]_vars

\* A get has found a parseable record stamped 0 and counted a miss
C13_Witness ==
    /\ last.op = "get" /\ last.result = None
    /\ disk[last.key].file = "json" /\ "fetched_at" \in DOMAIN disk[last.key]
    /\ disk[last.key].fetched_at = 0
    /\ memory[last.key] = None
    /\ stats["misses"] >= 1

\* The disk record of a key is one set wrote: an object value, stamped > 0
Usable(f) ==
    /\ f.file = "json" /\ "fetched_at" \in DOMAIN f
    /\ f.fetched_at > 0 /\ f.value.py = "dict"

C14_Step ==
    (ops' = ops + 1 /\ last'.op = "get")
    => LET k == last'.key
           r == last'.result
       IN  /\ disk' = disk
           /\ memory[k] # None =>
                /\ memory' = memory
                /\ last'.allow_stale => /\ r # None
                                        /\ r.source = "memory"
                                        /\ r.value = memory[k].value
                                        /\ r.fetched_at = memory[k].fetched_at
           /\ (memory[k] = None /\ Usable(disk[k])) =>
                /\ memory'[k] # None
                /\ memory'[k].value = disk[k].value
                /\ memory'[k].fetched_at = disk[k].fetched_at
                /\ last'.allow_stale => /\ r # None
                                        /\ r.source = "disk"
                                        /\ r.value = disk[k].value
                                        /\ r.fetched_at = disk[k].fetched_at
           /\ (last.op = "get" /\ last.key = k /\ last.result # None
                 /\ last.result.source = "disk" /\ last'.allow_stale) =>
                /\ r # None
                /\ r.source = "memory"
                /\ r.value = last.result.value
                /\ r.fetched_at = last.result.fetched_at

\* C14: get consults the memory tier first and the disk tier only when memory has no
\* entry; a valid disk record found this way is returned with source = "disk" and its
\* stored fetched_at, and is promoted into memory so that the next get for that key
\* returns the same value with source = "memory".
C14_MemoryThenDisk == [][C14_Step]_vars

\* Two gets answered and no set: the second was answered from memory with the
\* record the first one found on disk
C14_Witness ==
    /\ last.op = "get" /\ last.result # None
    /\ last.result.source = "memory"
    /\ Usable(disk[last.key])
    /\ last.result.value = disk[last.key].value
    /\ stats["writes"] = 0
    /\ stats["hits"] = 2

----------------------------------------------------------------------------
(* The service with two configured layers, over a cache directory an earlier process *)
(* of the service may have written.                                                  *)

PairLayers == {"neighborhoods", "elevation_spots"}

PairKeys == {cache_key(l) : l \in PairLayers}

\* What the fetch collaborator may do: fail, return features of both layers, or
\* return features of neither
PairResponses ==
    {[py |-> "raise", error |-> "HTTPError", msg |-> "upstream unavailable"],
     FeatureCollection(<<PolygonB, PointQ>>),
     FeatureCollection(<<LineL, NoGeometry>>)}

\* What the disk may do when the cache writes: take the file, or refuse it
PairOutcomes == {"ok", "open_fails"}

InitPair ==
    /\ now = 1
    /\ ttl_seconds = MaxTTL
    /\ memory = [k \in PairKeys |-> None]
    /\ disk \in {d \in [PairKeys -> {NoFile} \cup {EarlierFileOf(l) : l \in PairLayers}] :
                    \A l \in PairLayers : d[cache_key(l)] \in {NoFile, EarlierFileOf(l)}}
    /\ stats = InitStats
    /\ layer_error_count = [l \in PairLayers |-> 0]
    /\ fetches = 0
    /\ ops = 0
    /\ last = [op |-> "none"]
    /\ threads = [th \in Threads |-> Idle]
    /\ lock = "free"
    /\ calls = InitCalls

NextPair ==
    \/ \E l \in PairLayers, f \in BOOLEAN, r \in PairResponses, o \in PairOutcomes :
           GetLayer(l, f, r, o)
    \/ Tick

SpecPair == InitPair /\ [][NextPair]_vars

\* A step of get_layer whose live fetch or normalisation fails
FailedRefreshStep == ops' = ops + 1 /\ last'.op = "get_layer" /\ last'.live \in {"HTTPError", "ValueError"}

\* What a get_layer call on layer y would return, and the entries of y it would leave,
\* if it ran next from the given memory and disk
Behaviour(mem, dsk, st, errs, y, f, r, o) ==
    LET g == get_layer(mem, dsk, st, errs, ttl_seconds, now', y, f, r, o)
    IN  [result |-> g.result, memory |-> g.memory[cache_key(y)], disk |-> g.disk[cache_key(y)]]

\* Every other layer answers after the failure as it would have answered before it
OthersUndisturbed ==
    \A y \in PairLayers \ {last'.layer_key}, f \in BOOLEAN, r \in PairResponses, o \in PairOutcomes :
        Behaviour(memory', disk', stats', layer_error_count', y, f, r, o)
            = Behaviour(memory, disk, stats, layer_error_count, y, f, r, o)

C15_OriginalStep ==
    FailedRefreshStep
        => /\ memory' = memory
           /\ disk' = disk
           /\ stats'["writes"] = stats["writes"]
           /\ OthersUndisturbed

\* C15 as stated: after get_layer(X) fails in fetch or normalisation, the memory and
\* disk entries of every layer (X included) and the writes counter are unchanged, and
\* get_layer on any other layer behaves as if the failure had not happened.
C15_Original == [][C15_OriginalStep]_vars

C15_AmendedStep ==
    FailedRefreshStep
        => LET kx == cache_key(last'.layer_key)
           IN  /\ \A k \in PairKeys \ {kx} : memory'[k] = memory[k]
               /\ \/ memory'[kx] = memory[kx]
                  \/ /\ memory[kx] = None
                     /\ Usable(disk[kx])
                     /\ memory'[kx] # None
                     /\ memory'[kx].value = disk[kx].value
                     /\ memory'[kx].fetched_at = disk[kx].fetched_at
               /\ disk' = disk
               /\ stats'["writes"] = stats["writes"]
               /\ OthersUndisturbed

\* C15: after get_layer(X) fails in fetch or normalisation, the disk entries of every
\* layer, the memory entries of every other layer and the writes counter are
\* unchanged; the memory entry of X is unchanged or, when memory held none, is now the
\* record X has on disk; get_layer on any other layer behaves as if the failure had
\* not happened.
C15_FailedRefreshChangesNoEntry == [][C15_AmendedStep]_vars

\* A refresh of one layer has failed and was answered from its disk record, while the
\* other layer has a record of its own
C15_Witness ==
    /\ last.op = "get_layer" /\ last.live = "HTTPError"
    /\ last.result.py = "dict"
    /\ memory[cache_key(last.layer_key)] # None
    /\ stats["writes"] = 0
    /\ \E y \in PairLayers \ {last.layer_key} : Usable(disk[cache_key(y)])

----------------------------------------------------------------------------
(* A get that overlaps a set, checked under SpecLock *)

\* A set is under way: it has been entered and has not returned
SetUnderWay == \E th \in Threads : threads[th] # Idle /\ threads[th].op = "set"

\* C17: a get that runs concurrently with a set on the same key never returns a
\* partially written value: its result is None, the complete previous value (the
\* record of the earlier process, with its timestamp), or the complete value of a set
\* that has stored it, with the time of that set.
C17_NoPartialValue ==
    (last.op = "get" /\ last.result # None)
        => \/ /\ last.result.value = EarlierFile.value
              /\ last.result.fetched_at = EarlierFile.fetched_at
           \/ /\ last.result.value \in CacheValues
              /\ last.result.fetched_at \in 1..now
              /\ calls.stored >= 1

\* A get has returned the previous value from the file while a set that has already
\* stored the new value is still under way
C17_Witness ==
    /\ last.op = "get" /\ last.result # None
    /\ last.result.source = "disk"
    /\ last.result.value = EarlierFile.value
    /\ calls.stored = 1
    /\ SetUnderWay

----------------------------------------------------------------------------
(* api/routing.py : numbers and names *)

\* Floats are fixed-point numbers with seven decimals: One stands for 1.0
One == 10000000

\* x * num / den, to the nearest unit
Scaled(x, num, den) == (x * num + den \div 2) \div den

\* round(x, digits): to the nearest multiple of step (10 units for 6 digits, 1000 for 4)
Round(x, step) == ((x + step \div 2) \div step) * step

Min(a, b) == IF a <= b THEN a ELSE b

Abs(x) == IF x < 0 THEN -x ELSE x

RECURSIVE Sum(_)
Sum(seq) == IF seq = << >> THEN 0 ELSE Head(seq) + Sum(Tail(seq))

RECURSIVE Maximum(_)
Maximum(seq) == IF Len(seq) = 1 THEN seq[1] ELSE Max(Head(seq), Maximum(Tail(seq)))

\* A str is the sequence of its characters; these are the characters used
LowerOf == [A |-> "a", B |-> "b", C |-> "c", D |-> "d", E |-> "e", Z |-> "z"]

\* str.lower
lower(str) == [i \in 1..Len(str) |-> IF str[i] \in DOMAIN LowerOf THEN LowerOf[str[i]] ELSE str[i]]

\* str.strip
RECURSIVE strip(_)
strip(str) ==
    IF str = << >> THEN str
    ELSE IF Head(str) = " " THEN strip(Tail(str))
    ELSE IF str[Len(str)] = " " THEN strip(SubSeq(str, 1, Len(str) - 1))
    ELSE str

\* str.split(): the words between runs of whitespace; word is the word being read
RECURSIVE split(_, _)
split(str, word) ==
    IF str = << >> THEN (IF word = << >> THEN << >> ELSE <<word>>)
    ELSE IF Head(str) = " "
         THEN (IF word = << >> THEN << >> ELSE <<word>>) \o split(Tail(str), << >>)
         ELSE split(Tail(str), Append(word, Head(str)))

\* " ".join(words)
RECURSIVE join(_)
join(words) ==
    IF words = << >> THEN << >>
    ELSE IF Len(words) = 1 THEN words[1]
    ELSE words[1] \o <<" ">> \o join(Tail(words))

\* A canonical name that keeps the case of the letters
_canonical_name_KeepsCase(name) == join(split(strip(name), << >>))

_canonical_name(name) == join(split(lower(strip(name)), << >>))

_risk_level(probability) ==
    IF probability < Scaled(One, 3, 10) THEN "low"
    ELSE IF probability < Scaled(One, 6, 10) THEN "medium"
    ELSE IF probability < Scaled(One, 8, 10) THEN "high"
    ELSE "critical"

----------------------------------------------------------------------------
(* api/routing.py : the neighbourhood graph *)

\* Geometries are polygons in a row, one hundredth of a degree high, reaching from
\* west to east (hundredths of a degree). west < east is a valid polygon, west = east
\* a polygon collapsed to a line (not valid; buffer(0) of it is empty), west > east the
\* empty geometry. NoShape is a feature without geometry.
Cell(west) == [type |-> "Polygon", west |-> west, east |-> west + 1]
NoShape == [type |-> "None"]
EmptyShape == [type |-> "Polygon", west |-> 1, east |-> 0]

is_empty(geom) == geom.west > geom.east
is_valid(geom) == geom.west < geom.east
buffer0(geom) == IF geom.west < geom.east THEN geom ELSE EmptyShape

\* left.touches(right) or left.intersects(right)
touches_or_intersects(left, right) == left.west <= right.east /\ right.west <= left.east

KmPerDegree == 111

\* Distance of the centroids in degrees, times 111. Twice the centroid of a polygon is
\* west + east, in hundredths of a degree.
_centroid_distance_km(node_a, node_b) ==
    Abs((node_a.geometry.west + node_a.geometry.east)
        - (node_b.geometry.west + node_b.geometry.east)) * (One \div 200) * KmPerDegree

\* A feature of the scored neighbourhood layer. A name of << >> is a missing or empty
\* name; properties without probability stand for an unscored feature.
\* The failure of a lookup outside the router's own error class
RouteInputError_SystemFault(msg) == [py |-> "raise", error |-> "NetworkXNoPath", msg |-> msg]

RouteInputError(msg) == [py |-> "raise", error |-> "RouteInputError", msg |-> msg]

RECURSIVE _extract_neighborhood_rows(_)
_extract_neighborhood_rows(features) ==
    IF features = << >> THEN << >>
    ELSE LET feature == Head(features)
             properties == feature.properties
             name == properties.neighborhood_name
             geometry == feature.geometry
             geom == IF is_valid(geometry) THEN geometry ELSE buffer0(geometry)
             probability == IF "probability" \in DOMAIN properties
                            THEN properties.probability ELSE Scaled(One, 5, 10)
             rest == _extract_neighborhood_rows(Tail(features))
         IN  IF name = << >> \/ geometry = NoShape THEN rest
             ELSE IF is_empty(geometry) THEN rest
             ELSE IF is_empty(geom) THEN rest
             ELSE <<[name |-> name, canonical_name |-> _canonical_name(name),
                     geometry |-> geom, probability |-> Max(0, Min(One, probability))]>> \o rest

\* The names of the rows in the order graph.add_node first meets them
RECURSIVE NodeOrder(_, _)
NodeOrder(rows, seen) ==
    IF rows = << >> THEN << >>
    ELSE IF Head(rows).name \in seen THEN NodeOrder(Tail(rows), seen)
    ELSE <<Head(rows).name>> \o NodeOrder(Tail(rows), seen \cup {Head(rows).name})

\* The last row of a name: the one whose attributes add_node leaves on the node, and
\* the one index[name] holds
LastRow(rows, name) ==
    rows[CHOOSE i \in 1..Len(rows) :
            rows[i].name = name /\ \A j \in (i + 1)..Len(rows) : rows[j].name # name]

\* combinations(nodes, 2) yields <<i, j>> before <<k, l>>
Before(i, j, k, l) == i < k \/ (i = k /\ j < l)

\* The edges of the pairwise pass. Nodes are keyed by name, so an edge is the set of
\* the names it joins (one name for a loop); when several pairs of rows give the same
\* edge the last add_edge leaves its traversal_penalty.
PairwiseEdges(rows) ==
    LET Pairs == {pr \in (1..Len(rows)) \X (1..Len(rows)) :
                     /\ pr[1] < pr[2]
                     /\ touches_or_intersects(rows[pr[1]].geometry, rows[pr[2]].geometry)}
        EdgeOf(pr) == {rows[pr[1]].name, rows[pr[2]].name}
        LastPair(e) == CHOOSE pr \in Pairs :
                          /\ EdgeOf(pr) = e
                          /\ \A qr \in Pairs : (EdgeOf(qr) = e /\ qr # pr)
                                                   => Before(qr[1], qr[2], pr[1], pr[2])
    IN  [e \in {EdgeOf(pr) : pr \in Pairs} |->
            LET distance_km == _centroid_distance_km(rows[LastPair(e)[1]], rows[LastPair(e)[2]])
            IN  [traversal_penalty |-> Scaled(One, 8, 100) + Min(Scaled(One, 9, 10), Scaled(distance_km, 6, 100))]]

\* graph.add_edge(left, right, traversal_penalty = ...)
add_edge(edge, left, right, traversal_penalty) ==
    [e \in DOMAIN edge \cup {{left, right}} |->
        IF e = {left, right} THEN [traversal_penalty |-> traversal_penalty] ELSE edge[e]]

\* for isolated_name in isolates: connect it to the closest row of another name;
\* min returns the first of the rows at the least distance
RECURSIVE ConnectIsolates(_, _, _)
ConnectIsolates(edge, isolates, rows) ==
    IF isolates = << >> THEN edge
    ELSE LET isolated_name == Head(isolates)
             isolated_node == LastRow(rows, isolated_name)
             candidates == {i \in 1..Len(rows) : rows[i].name # isolated_name}
             Distance(i) == _centroid_distance_km(isolated_node, rows[i])
             closest == CHOOSE i \in candidates :
                            \A j \in candidates :
                                Distance(i) < Distance(j) \/ (Distance(i) = Distance(j) /\ i <= j)
             traversal_penalty == Scaled(One, 16, 100)
                                    + Min(Scaled(One, 12, 10), Scaled(Distance(closest), 8, 100))
         IN  IF candidates = {} THEN ConnectIsolates(edge, Tail(isolates), rows)
             ELSE ConnectIsolates(add_edge(edge, isolated_name, rows[closest].name, traversal_penalty),
                                  Tail(isolates), rows)

\* A rescue pass that leaves the isolates alone
_fallback_connect_isolates_Skipped(order, edge, rows) == edge

\* isolates are the nodes of degree 0 when the pass starts
_fallback_connect_isolates(order, edge, rows) ==
    IF Len(order) <= 1 THEN edge
    ELSE ConnectIsolates(edge,
            SelectSeq(order, LAMBDA name : \A e \in DOMAIN edge : name \notin e), rows)

\* The graph: order lists the node names as inserted, node gives their attributes,
\* edge the attributes of each edge
build_neighborhood_graph(neighborhood_feature_collection) ==
    LET nodes == _extract_neighborhood_rows(neighborhood_feature_collection.features)
        order == NodeOrder(nodes, {})
    IN  IF nodes = << >>
        THEN RouteInputError("No neighborhood geometries available for routing.")
        ELSE [py |-> "Graph",
              order |-> order,
              node |-> [name \in {nodes[i].name : i \in 1..Len(nodes)} |->
                          [canonical_name |-> LastRow(nodes, name).canonical_name,
                           probability |-> LastRow(nodes, name).probability]],
              edge |-> _fallback_connect_isolates(order, PairwiseEdges(nodes), nodes)]

\* Edge weights that leave the risk of the endpoints out
_apply_edge_weights_PenaltyOnly(graph) ==
    [graph EXCEPT !.edge = [e \in DOMAIN graph.edge |->
        [traversal_penalty |-> graph.edge[e].traversal_penalty,
         weight |-> graph.edge[e].traversal_penalty]]]

\* weight = traversal_penalty + 0.72 * average risk of the two ends
_apply_edge_weights(graph) ==
    [graph EXCEPT !.edge = [e \in DOMAIN graph.edge |->
        LET left == CHOOSE n \in e : TRUE
            right == CHOOSE n \in e : Cardinality(e) = 1 \/ n # left
            average_risk == Scaled(graph.node[left].probability + graph.node[right].probability, 1, 2)
        IN  [traversal_penalty |-> graph.edge[e].traversal_penalty,
             weight |-> graph.edge[e].traversal_penalty + Scaled(average_risk, 72, 100)]]]

----------------------------------------------------------------------------
(* api/routing.py : compute_neighborhood_corridor *)

\* A resolution that falls back on the first node when no canonical name matches
_resolve_graph_node_FirstNode(graph, neighborhood_name) ==
    LET canonical == _canonical_name(neighborhood_name)
        matches == {i \in 1..Len(graph.order) : graph.node[graph.order[i]].canonical_name = canonical}
    IN  IF matches = {} THEN [py |-> "str", name |-> graph.order[1]]
        ELSE [py |-> "str", name |-> graph.order[CHOOSE i \in matches : \A j \in matches : i <= j]]

\* The first node, in insertion order, whose canonical name is that of the name asked for
_resolve_graph_node(graph, neighborhood_name) ==
    LET canonical == _canonical_name(neighborhood_name)
        matches == {i \in 1..Len(graph.order) : graph.node[graph.order[i]].canonical_name = canonical}
    IN  IF matches = {} THEN RouteInputError("Unknown neighborhood")
        ELSE [py |-> "str", name |-> graph.order[CHOOSE i \in matches : \A j \in matches : i <= j]]

\* No distance known yet
Inf == -1

\* Dijkstra's algorithm: dist holds the least distance seen so far for each node, done
\* the nodes whose distance is final. The node of least distance not yet done is
\* taken, and each of its neighbours is given the distance through it when that is
\* shorter.
RECURSIVE Settle(_, _, _)
Settle(graph, dist, done) ==
    LET fringe == {n \in DOMAIN graph.node \ done : dist[n] # Inf}
    IN  IF fringe = {} THEN dist
        ELSE LET v == CHOOSE n \in fringe : \A m \in fringe : dist[n] <= dist[m]
                 Through(u) == dist[v] + graph.edge[{v, u}].weight
             IN  Settle(graph,
                        [u \in DOMAIN graph.node |->
                            IF u \notin done /\ u # v /\ {v, u} \in DOMAIN graph.edge
                                 /\ (dist[u] = Inf \/ Through(u) < dist[u])
                            THEN Through(u) ELSE dist[u]],
                        done \cup {v})

\* The paths from source that reach node over edges on which the distance is attained
RECURSIVE PathsTo(_, _, _, _)
PathsTo(graph, dist, source, node) ==
    IF node = source THEN {<<source>>}
    ELSE UNION {{Append(path, node) : path \in PathsTo(graph, dist, source, v)} :
                v \in {v \in DOMAIN graph.node :
                          /\ v # node /\ {v, node} \in DOMAIN graph.edge
                          /\ dist[v] # Inf
                          /\ dist[v] + graph.edge[{v, node}].weight = dist[node]}}

\* A search that returns its paths from the target back to the source
shortest_path_Reversed(graph, source, target) ==
    LET dist == Settle(graph, [n \in DOMAIN graph.node |-> IF n = target THEN 0 ELSE Inf], {})
    IN  IF dist[source] = Inf THEN {} ELSE PathsTo(graph, dist, target, source)

\* A search for the paths of fewest edges, whatever their weight
shortest_path_FewestHops(graph, source, target) ==
    LET unit == [graph EXCEPT !.edge = [e \in DOMAIN graph.edge |->
                    [traversal_penalty |-> graph.edge[e].traversal_penalty, weight |-> 1]]]
        dist == Settle(unit, [n \in DOMAIN graph.node |-> IF n = source THEN 0 ELSE Inf], {})
    IN  IF dist[target] = Inf THEN {} ELSE PathsTo(unit, dist, source, target)

\* nx.shortest_path(graph, source, target, weight = "weight"): the paths it may return
\* (which one, among paths of equal weight, depends on the order the library visits
\* them in); none when target cannot be reached
shortest_path(graph, source, target) ==
    LET dist == Settle(graph, [n \in DOMAIN graph.node |-> IF n = source THEN 0 ELSE Inf], {})
    IN  IF dist[target] = Inf THEN {} ELSE PathsTo(graph, dist, source, target)

\* The sentence of _build_guidance: its risk band and the figure it cites, a percentage
\* with one decimal
_build_guidance(path, path_probabilities, aggregate_risk) ==
    LET level == _risk_level(aggregate_risk)
    IN  IF level \in {"critical", "high"}
        THEN [level |-> level, peak |-> Round(Maximum(path_probabilities), One \div 1000)]
        ELSE IF level = "medium"
        THEN [level |-> level, aggregate |-> Round(aggregate_risk, One \div 1000)]
        ELSE [level |-> level, aggregate |-> Round(aggregate_risk, One \div 1000),
              neighborhoods |-> Len(path)]

\* A result whose aggregate risk is the plain mean of the per-hop risks
Corridor_PlainMean(graph, from_node, to_node, path) ==
    LET path_probabilities == [i \in 1..Len(path) |-> graph.node[path[i]].probability]
        path_weights == [i \in 1..(Len(path) - 1) |-> graph.edge[{path[i], path[i + 1]}].weight]
        average_risk == Scaled(Sum(path_probabilities), 1, Len(path_probabilities))
        max_risk == Maximum(path_probabilities)
        aggregate_corridor_risk == average_risk
    IN  [py |-> "dict",
         from_neighborhood |-> from_node,
         to_neighborhood |-> to_node,
         ordered_neighborhoods |-> path,
         per_hop_risk_scores |->
            [i \in 1..Len(path) |->
                [hop |-> i, neighborhood |-> path[i], probability |-> path_probabilities[i],
                 risk_level |-> _risk_level(path_probabilities[i]),
                 step_weight |-> IF i = 1 THEN 0 ELSE Round(path_weights[i - 1], 1000)]],
         aggregate_corridor_risk |-> Round(aggregate_corridor_risk, 10),
         corridor_cost |-> Round(Sum(path_weights), 10),
         narrative_guidance |-> _build_guidance(path, path_probabilities, aggregate_corridor_risk)]

\* The result for a path of several nodes
Corridor(graph, from_node, to_node, path) ==
    LET path_probabilities == [i \in 1..Len(path) |-> graph.node[path[i]].probability]
        path_weights == [i \in 1..(Len(path) - 1) |-> graph.edge[{path[i], path[i + 1]}].weight]
        average_risk == Scaled(Sum(path_probabilities), 1, Len(path_probabilities))
        max_risk == Maximum(path_probabilities)
        aggregate_corridor_risk == Scaled(average_risk, 6, 10) + Scaled(max_risk, 4, 10)
    IN  [py |-> "dict",
         from_neighborhood |-> from_node,
         to_neighborhood |-> to_node,
         ordered_neighborhoods |-> path,
         per_hop_risk_scores |->
            [i \in 1..Len(path) |->
                [hop |-> i, neighborhood |-> path[i], probability |-> path_probabilities[i],
                 risk_level |-> _risk_level(path_probabilities[i]),
                 step_weight |-> IF i = 1 THEN 0 ELSE Round(path_weights[i - 1], 1000)]],
         aggregate_corridor_risk |-> Round(aggregate_corridor_risk, 10),
         corridor_cost |-> Round(Sum(path_weights), 10),
         narrative_guidance |-> _build_guidance(path, path_probabilities, aggregate_corridor_risk)]

\* The result when origin and destination are the same node
SameNode(graph, from_node) ==
    LET probability == graph.node[from_node].probability
    IN  [py |-> "dict",
         from_neighborhood |-> from_node,
         to_neighborhood |-> from_node,
         ordered_neighborhoods |-> <<from_node>>,
         per_hop_risk_scores |->
            <<[hop |-> 1, neighborhood |-> from_node, probability |-> probability,
               risk_level |-> _risk_level(probability), step_weight |-> 0]>>,
         aggregate_corridor_risk |-> probability,
         narrative_guidance |-> _build_guidance(<<from_node>>, <<probability>>, probability)]

\* The results compute_neighborhood_corridor may return or raise
compute_neighborhood_corridor(neighborhood_feature_collection, from_neighborhood, to_neighborhood) ==
    LET built == build_neighborhood_graph(neighborhood_feature_collection)
        graph == _apply_edge_weights(built)
        from_node == _resolve_graph_node(graph, from_neighborhood)
        to_node == _resolve_graph_node(graph, to_neighborhood)
        paths == shortest_path(graph, from_node.name, to_node.name)
    IN  IF built.py = "raise" THEN {built}
        ELSE IF from_node.py = "raise" THEN {from_node}
        ELSE IF to_node.py = "raise" THEN {to_node}
        ELSE IF from_node.name = to_node.name THEN {SameNode(graph, from_node.name)}
        ELSE IF paths = {} THEN {RouteInputError("No route available")}
        ELSE {Corridor(graph, from_node.name, to_node.name, path) : path \in paths}

----------------------------------------------------------------------------
(* The router called with a scored neighbourhood layer *)

\* Names of the neighbourhoods, by position in the collection
NodeNames == << <<"A">>, <<"B">>, <<"C">>, <<"D">>, <<"E">> >>

\* Risk probabilities the scorer gives: 0.1234567, 0.41 and 0.58
Risks == <<1234567, 4100000, 5800000>>

\* How the probabilities are dealt to the features
Profiles == 0..2

\* What is unusual about a collection: nothing; its second feature has no name; its
\* second feature has no geometry; its last feature is named like the first one in
\* another spelling; its last feature has the very name of the first one; its last
\* feature has a name of two words
Variants == {"plain", "nameless", "no_geometry", "recased", "duplicate", "two_words"}

RouteFeature(name, probability, geometry) ==
    [type |-> "Feature", geometry |-> geometry,
     properties |-> [neighborhood_name |-> name, probability |-> probability]]

\* The collection whose i-th feature lies at cells[i]
Collection(cells, profile, variant) ==
    LET n == Len(cells)
    IN  FeatureCollection(
            [i \in 1..n |->
                RouteFeature(
                    IF variant = "nameless" /\ i = 2 THEN << >>
                    ELSE IF variant = "recased" /\ i = n /\ n >= 2 THEN <<" ", "a", " ">>
                    ELSE IF variant = "duplicate" /\ i = n /\ n >= 2 THEN NodeNames[1]
                    ELSE IF variant = "two_words" /\ i = n /\ n >= 2 THEN <<"A", " ", "B">>
                    ELSE NodeNames[i],
                    Risks[((i + profile) % 3) + 1],
                    IF variant = "no_geometry" /\ i = 2 THEN NoShape ELSE Cell(cells[i]))])

\* Where the features of a collection lie: up to MaxFeatures cells, listed from west to east
Layouts ==
    {cells \in UNION {[1..n -> 0..MaxPos] : n \in 0..MaxFeatures} :
        \A i \in 1..(Len(cells) - 1) : cells[i] <= cells[i + 1]}

Collections ==
    {Collection(cells, profile, variant) :
        cells \in Layouts, profile \in Profiles, variant \in Variants}

\* Names asked for as origin and as destination
FromNames == { <<"A">>, <<"B">> }
ToNames == { <<"A">>, <<"a">>, <<" ", "C", " ">>, <<"D">>, <<"Z">>, <<"a", " ", " ", "b">> }

\* One call of compute_neighborhood_corridor; the router keeps nothing between calls
ComputeCorridor(neighborhood_feature_collection, from_neighborhood, to_neighborhood) ==
    /\ ops = 0
    /\ ops' = 1
    /\ \E result \in compute_neighborhood_corridor(neighborhood_feature_collection,
                                                   from_neighborhood, to_neighborhood) :
          last' = [op |-> "corridor", collection |-> neighborhood_feature_collection,
                   from |-> from_neighborhood, to |-> to_neighborhood, result |-> result]
    /\ UNCHANGED <<now, ttl_seconds, memory, disk, stats, layer_error_count, fetches, threads, lock, calls>>

InitRoute == Init /\ ttl_seconds = MaxTTL

NextRoute ==
    /\ ops = 0
    /\ \E fc \in Collections, f \in FromNames, t \in ToNames : ComputeCorridor(fc, f, t)

SpecRoute == InitRoute /\ [][NextRoute]_vars

----------------------------------------------------------------------------
(* Properties of the router, checked under SpecRoute *)

\* The last call was a corridor computation that returned a result
Routed == last.op = "corridor" /\ last.result.py = "dict"

\* The graph of the last call, and the nodes its origin and destination resolve to
RouteGraph == build_neighborhood_graph(last.collection)
Origin == _resolve_graph_node(RouteGraph, last.from).name
Destination == _resolve_graph_node(RouteGraph, last.to).name

\* Three neighbourhoods in a line: A touches B, B touches C, A does not touch C
LineABC == {Collection(<<0, 1, 2>>, profile, "plain") : profile \in Profiles}

\* C18: every path returned by corridor computation starts at the resolved origin,
\* ends at the resolved destination, visits no node twice, and has an edge of the graph
\* between each consecutive pair; for neighbourhoods in a line A-B-C where A and C do
\* not touch, the path from A to C is exactly [A, B, C] with one per-hop record per
\* path node in path order.
C18_PathIsWalkOfGraph ==
    /\ Routed =>
        LET path == last.result.ordered_neighborhoods
            hops == last.result.per_hop_risk_scores
        IN  /\ path[1] = Origin
            /\ path[Len(path)] = Destination
            /\ \A i, j \in 1..Len(path) : i # j => path[i] # path[j]
            /\ \A i \in 1..(Len(path) - 1) : {path[i], path[i + 1]} \in DOMAIN RouteGraph.edge
            /\ Len(hops) = Len(path)
            /\ \A i \in 1..Len(path) : hops[i].hop = i /\ hops[i].neighborhood = path[i]
    /\ (last.op = "corridor" /\ last.collection \in LineABC
            /\ last.from = <<"A">> /\ last.to = <<" ", "C", " ">>)
        => /\ last.result.py = "dict"
           /\ last.result.ordered_neighborhoods = << <<"A">>, <<"B">>, <<"C">> >>

\* The path from A to C through B has been returned for the line A-B-C
C18_Witness ==
    /\ Routed
    /\ last.collection \in LineABC
    /\ last.result.ordered_neighborhoods = << <<"A">>, <<"B">>, <<"C">> >>
    /\ Len(last.result.per_hop_risk_scores) = 3

\* The paths of the graph that continue path to target and visit no node twice
RECURSIVE Walks(_, _, _)
Walks(graph, path, target) ==
    LET here == path[Len(path)]
        visited == {path[i] : i \in 1..Len(path)}
    IN  IF here = target THEN {path}
        ELSE UNION {Walks(graph, Append(path, n), target) :
                    n \in {n \in DOMAIN graph.node \ visited : {here, n} \in DOMAIN graph.edge}}

\* The weight of the edge between two nodes: its traversal penalty plus 0.72 times
\* the average of the risks of the two nodes
WeightBetween(graph, a, b) ==
    graph.edge[{a, b}].traversal_penalty
        + Scaled(Scaled(graph.node[a].probability + graph.node[b].probability, 1, 2), 72, 100)

\* The sum of the weights of the edges along a path
TotalWeight(graph, path) ==
    Sum([i \in 1..(Len(path) - 1) |-> WeightBetween(graph, path[i], path[i + 1])])

\* The path returned weighs no more than any other path between its ends
C19_Lightest ==
    \A other \in Walks(RouteGraph, <<Origin>>, Destination) :
        TotalWeight(RouteGraph, last.result.ordered_neighborhoods) <= TotalWeight(RouteGraph, other)

\* C19 as stated: the path returned for distinct origin and destination has minimum
\* total edge weight among all paths between them in the constructed graph, and the
\* reported corridor cost equals the sum of the weights of the edges along it.
C19_Original ==
    (Routed /\ Origin # Destination)
        => /\ C19_Lightest
           /\ last.result.corridor_cost = TotalWeight(RouteGraph, last.result.ordered_neighborhoods)

\* C19: the path returned for distinct origin and destination has minimum total edge
\* weight among all paths between them in the constructed graph, and the reported
\* corridor cost equals the sum of the weights of the edges along it rounded to six
\* decimals.
C19_LightestPathAndRoundedCost ==
    (Routed /\ Origin # Destination)
        => /\ C19_Lightest
           /\ last.result.corridor_cost
                = Round(TotalWeight(RouteGraph, last.result.ordered_neighborhoods), 10)

\* A path has been returned although a heavier path with as few edges exists, and its
\* cost was rounded
C19_Witness ==
    /\ Routed /\ Origin # Destination
    /\ \E other \in Walks(RouteGraph, <<Origin>>, Destination) :
          /\ Len(other) = Len(last.result.ordered_neighborhoods)
          /\ TotalWeight(RouteGraph, other) > TotalWeight(RouteGraph, last.result.ordered_neighborhoods)
    /\ last.result.corridor_cost # TotalWeight(RouteGraph, last.result.ordered_neighborhoods)

\* C20: when the origin and destination names resolve to the same node, corridor
\* computation returns a single-element path, a single per-hop record carrying that
\* node's risk, an aggregate risk equal to that node's own risk, and a total cost of 0.
C20_SameNodeCorridor ==
    (Routed /\ Origin = Destination)
        => /\ last.result.ordered_neighborhoods = <<Origin>>
           /\ Len(last.result.per_hop_risk_scores) = 1
           /\ last.result.per_hop_risk_scores[1].neighborhood = Origin
           /\ last.result.per_hop_risk_scores[1].probability = RouteGraph.node[Origin].probability
           /\ last.result.aggregate_corridor_risk = RouteGraph.node[Origin].probability
           /\ "corridor_cost" \in DOMAIN last.result
           /\ last.result.corridor_cost = 0

----------------------------------------------------------------------------
(* Properties of the router: names that cannot be routed *)

\* The graph was built and no node of it has the canonical name of the name asked for
Unknown(name) ==
    /\ RouteGraph.py = "Graph"
    /\ \A n \in DOMAIN RouteGraph.node :
          RouteGraph.node[n].canonical_name # _canonical_name(name)

\* C21: when the origin or destination name matches no node of the graph, corridor
\* computation fails with RouteInputError, never with another error, and returns no
\* partial result.
C21_UnknownNameIsInputError ==
    (last.op = "corridor" /\ (Unknown(last.from) \/ Unknown(last.to)))
        => /\ last.result.py = "raise"
           /\ last.result.error = "RouteInputError"
           /\ last.result.msg = "Unknown neighborhood"

\* The origin is a node of a graph of several nodes, the destination is not
C21_Witness ==
    /\ last.op = "corridor"
    /\ RouteGraph.py = "Graph"
    /\ Cardinality(DOMAIN RouteGraph.node) >= 2
    /\ ~Unknown(last.from)
    /\ Unknown(last.to)
    /\ last.result.py = "raise"

\* Both names resolve and no path of the graph joins the two nodes
Unreachable ==
    /\ last.op = "corridor"
    /\ RouteGraph.py = "Graph"
    /\ ~Unknown(last.from) /\ ~Unknown(last.to)
    /\ Walks(RouteGraph, <<Origin>>, Destination) = {}

\* C22: when both endpoints resolve but lie in different connected components of the
\* constructed graph, corridor computation fails with RouteInputError ("no route
\* available"), not with a system fault.
C22_NoRouteIsInputError ==
    Unreachable
        => /\ last.result.py = "raise"
           /\ last.result.error = "RouteInputError"
           /\ last.result.msg = "No route available"

\* A call between two nodes that lie in different components has failed
C22_Witness == Unreachable /\ last.result.py = "raise"

----------------------------------------------------------------------------
(* Properties of the router: how names are matched *)

\* The positions of a name that hold no whitespace, and the k-th of them
NonSpaces(name) == {i \in 1..Len(name) : name[i] # " "}
NthNonSpace(name, k) ==
    CHOOSE i \in NonSpaces(name) : Cardinality({j \in NonSpaces(name) : j <= i}) = k

\* What is left of a name when case, outer whitespace and the length of inner
\* whitespace are disregarded: its characters other than whitespace, in lower case,
\* each with whether whitespace parts it from the one before
CanonicalKey(name) ==
    [k \in 1..Cardinality(NonSpaces(name)) |->
        [char |-> IF name[NthNonSpace(name, k)] \in DOMAIN LowerOf
                  THEN LowerOf[name[NthNonSpace(name, k)]] ELSE name[NthNonSpace(name, k)],
         parted |-> k > 1 /\ NthNonSpace(name, k) > NthNonSpace(name, k - 1) + 1]]

\* A string in lower case with no whitespace at its ends and none doubled
IsCanonical(str) ==
    /\ \A i \in 1..Len(str) : str[i] \notin DOMAIN LowerOf
    /\ str # << >> => (str[1] # " " /\ str[Len(str)] # " ")
    /\ \A i \in 1..(Len(str) - 1) : ~(str[i] = " " /\ str[i + 1] = " ")

\* The nodes whose name is the name asked for up to case and whitespace
Matching(name) ==
    {n \in DOMAIN RouteGraph.node : CanonicalKey(n) = CanonicalKey(name)}

\* C23: endpoint resolution depends only on the canonical key: two names that are equal
\* after lowercasing, trimming and collapsing inner whitespace resolve to the same
\* node, a name resolves to a node of the same key, canonicalisation yields the key
\* and is idempotent, and a name whose key is that of no node is rejected.
C23_ResolutionByCanonicalKey ==
    (last.op = "corridor" /\ RouteGraph.py = "Graph")
        => /\ \A name \in {last.from, last.to} \cup DOMAIN RouteGraph.node :
                 /\ IsCanonical(_canonical_name(name))
                 /\ CanonicalKey(_canonical_name(name)) = CanonicalKey(name)
                 /\ _canonical_name(_canonical_name(name)) = _canonical_name(name)
           /\ (Matching(last.from) = {} \/ Matching(last.to) = {})
                 <=> (last.result.py = "raise" /\ last.result.msg = "Unknown neighborhood")
           /\ last.result.py = "dict"
                 => /\ last.result.from_neighborhood \in Matching(last.from)
                    /\ last.result.to_neighborhood \in Matching(last.to)
           /\ (CanonicalKey(last.from) = CanonicalKey(last.to) /\ Matching(last.from) # {})
                 => /\ last.result.py = "dict"
                    /\ last.result.from_neighborhood = last.result.to_neighborhood

\* A destination spelt with other case and doubled inner whitespace has been resolved
\* to the node of two words
C23_Witness ==
    /\ last.op = "corridor"
    /\ last.to = <<"a", " ", " ", "b">>
    /\ last.result.py = "dict"
    /\ last.result.to_neighborhood = <<"A", " ", "B">>

\* An origin and a destination of different spelling have been resolved to one node
C23_WitnessSameKey ==
    /\ last.op = "corridor"
    /\ last.from # last.to
    /\ CanonicalKey(last.from) = CanonicalKey(last.to)
    /\ last.result.py = "dict"

----------------------------------------------------------------------------
(* Properties of the router: the aggregate risk *)

\* The risks of the hop records of the result, in path order
HopRisks ==
    [i \in 1..Len(last.result.per_hop_risk_scores) |->
        last.result.per_hop_risk_scores[i].probability]

\* Their mean, and 0.6 times the mean plus 0.4 times the greatest of them
MeanRisk == Scaled(Sum(HopRisks), 1, Len(HopRisks))
BlendedRisk == Scaled(MeanRisk, 6, 10) + Scaled(Maximum(HopRisks), 4, 10)

\* The sixth decimal place
Millionth == One \div 1000000

\* C24 as stated: for a multi-node path the aggregate corridor risk equals 0.6 times
\* the mean of the per-hop risks plus 0.4 times their maximum; with all node risks in
\* [0,1] it lies in [0,1] and between the mean and the maximum per-hop risk.
C24_Original ==
    (Routed /\ Origin # Destination)
        => /\ last.result.aggregate_corridor_risk = BlendedRisk
           /\ 0 <= last.result.aggregate_corridor_risk
           /\ last.result.aggregate_corridor_risk <= One
           /\ MeanRisk <= last.result.aggregate_corridor_risk
           /\ last.result.aggregate_corridor_risk <= Maximum(HopRisks)

\* C24: for a multi-node path the aggregate corridor risk equals 0.6 times the mean of
\* the per-hop risks plus 0.4 times their maximum, rounded to six decimals; with all
\* node risks in [0,1] it lies in [0,1], and it is no more than 0.000001 below the mean
\* or above the maximum per-hop risk.
C24_AggregateIsRoundedBlend ==
    (Routed /\ Origin # Destination)
        => /\ \A i \in 1..Len(HopRisks) : 0 <= HopRisks[i] /\ HopRisks[i] <= One
           /\ last.result.aggregate_corridor_risk = Round(BlendedRisk, Millionth)
           /\ 0 <= last.result.aggregate_corridor_risk
           /\ last.result.aggregate_corridor_risk <= One
           /\ MeanRisk - Millionth <= last.result.aggregate_corridor_risk
           /\ last.result.aggregate_corridor_risk <= Maximum(HopRisks) + Millionth

\* A path of several nodes of unequal risk has been returned, and its aggregate risk
\* was rounded
C24_Witness ==
    /\ Routed /\ Origin # Destination
    /\ Len(HopRisks) >= 3
    /\ MeanRisk < Maximum(HopRisks)
    /\ last.result.aggregate_corridor_risk # BlendedRisk

----------------------------------------------------------------------------
(* The normalizer called on an upstream payload *)

\* An integer of JSON beyond the range of a float
BigInt == [py |-> "int", huge |-> TRUE, v |-> 0]

\* Features as upstream may send them: a point whose elevation is such an integer, a
\* point whose properties are a string, a feature whose geometry is a string
PointHuge == Feature([type |-> "Point", coordinates |-> "h"], [elevation |-> BigInt])
PointText == Feature([type |-> "Point", coordinates |-> "t"], Str("text"))
BadGeometry == Feature(Str("Point"), [descriptiv |-> Str("Nowhere")])

RawFeatures ==
    {PolygonA, PolygonB, PointP, PointQ, LineL, NoGeometry, PointHuge, PointText, BadGeometry}

\* The type tag of a payload: that of a feature collection, another one, or none
TypeTags == {"FeatureCollection", "Feature", "None"}

Payload(tag, features) ==
    IF tag = "None" THEN [py |-> "dict", features |-> features]
    ELSE [py |-> "dict", type |-> tag, features |-> features]

\* Payloads of up to MaxRaw features
RawPayloads ==
    {Payload(tag, features) :
        tag \in TypeTags, features \in UNION {[1..n -> RawFeatures] : n \in 0..MaxRaw}}

\* One call of _normalize_layer; the normalizer keeps nothing between calls
NormalizeLayer(layer_key, raw_geojson) ==
    /\ ops = 0
    /\ ops' = 1
    /\ last' = [op |-> "normalize", layer_key |-> layer_key, raw |-> raw_geojson,
                result |-> _normalize_layer(layer_key, raw_geojson)]
    /\ UNCHANGED <<now, ttl_seconds, memory, disk, stats, layer_error_count, fetches, threads, lock, calls>>

InitNorm == Init /\ ttl_seconds = MaxTTL

NextNorm ==
    /\ ops = 0
    /\ \E layer_key \in DOMAIN LAYER_CONFIG, raw_geojson \in RawPayloads :
          NormalizeLayer(layer_key, raw_geojson)

SpecNorm == InitNorm /\ [][NextNorm]_vars

----------------------------------------------------------------------------
(* Properties of the normalizer *)

\* A payload tagged as a feature collection has been normalized
Normalized ==
    /\ last.op = "normalize"
    /\ "type" \in DOMAIN last.raw
    /\ last.raw.type = "FeatureCollection"

\* The geometry kind of a raw feature, "None" when it has none
KindOf(feature) ==
    IF "type" \in DOMAIN feature.geometry THEN feature.geometry.type ELSE "None"

\* The raw features of the payload whose kind the layer allows, in input order
AcceptedRaw ==
    LET Allowed(feature) == KindOf(feature) \in LAYER_CONFIG[last.layer_key].geometry_types
    IN  SelectSeq(last.raw.features, Allowed)

\* C25: the normalizer's output is exactly the input features whose geometry kind is in
\* the layer's allowed set, in their input order; features of other kinds (or with no
\* geometry) are dropped without raising an error.
C25_FilterByGeometryKind ==
    Normalized
        => /\ last.result.py = "dict"
           /\ Len(last.result.features) = Len(AcceptedRaw)
           /\ \A i \in 1..Len(AcceptedRaw) :
                 last.result.features[i].geometry = AcceptedRaw[i].geometry

\* C26: the normalizer rejects the whole input with an error, producing no partial
\* output, whenever the payload's top-level type tag is not the feature-collection
\* tag, regardless of the features it contains.
C26_WrongTypeRejected ==
    (last.op = "normalize" /\ ~Normalized)
        => /\ last.result.py = "raise"
           /\ last.result.error = "ValueError"
           /\ "features" \notin DOMAIN last.result

\* A payload of another type whose features the layer would accept has been rejected
C26_Witness ==
    /\ last.op = "normalize" /\ ~Normalized
    /\ Len(AcceptedRaw) >= 2
    /\ last.result.py = "raise"

\* Every feature of the payload has an object or nothing as its geometry
GeometriesWellFormed ==
    \A i \in 1..Len(last.raw.features) :
        last.raw.features[i].geometry = None \/ IsMapping(last.raw.features[i].geometry)

\* C27: property mapping never raises for any malformed feature or property input
\* (missing properties, non-mapping properties, unparseable or out-of-range elevation
\* values): each unparseable field resolves to null/absent in the normalized feature.
C27_PropertyMappingNeverRaises ==
    (Normalized /\ GeometriesWellFormed)
        => /\ last.result.py = "dict"
           /\ last.layer_key = "elevation_spots"
                 => \A i \in 1..Len(last.result.features) :
                       last.result.features[i].properties.elevation.py \in {"None", "float"}

----------------------------------------------------------------------------
(* api/cache.py : the file of a key *)

\* Characters a key is made of. A str is the sequence of its characters; a character
\* outside ASCII is written by its code point: U+00E9 is e with acute accent, U+00B2
\* the superscript two, U+2603 the snowman.
AsciiAlnum == {"a", "Z", "7"}
AsciiOther == {":", "/", "."}
OtherAlnum == {"U+00E9", "U+00B2"}
OtherChars == {"U+2603"}
KeyChars == AsciiAlnum \cup {"-", "_"} \cup AsciiOther \cup OtherAlnum \cup OtherChars

\* str.isalnum of one character: true of every letter and digit of Unicode
isalnum(c) == c \in AsciiAlnum \cup OtherAlnum

\* The file of a key: the directory, the sanitized key, the suffix
_path_for_key(key) ==
    LET sanitized == [i \in 1..Len(key) |->
                        IF isalnum(key[i]) \/ key[i] \in {"-", "_"} THEN key[i] ELSE "_"]
    IN  [cache_dir |-> ".cache/map", stem |-> sanitized, suffix |-> ".json"]

\* Keys of up to MaxKey characters
KeyStrings == UNION {[1..n -> KeyChars] : n \in 0..MaxKey}

\* One derivation of the file of a key
PathForKey(key) ==
    /\ ops = 0
    /\ ops' = 1
    /\ last' = [op |-> "path", key |-> key, path |-> _path_for_key(key)]
    /\ UNCHANGED <<now, ttl_seconds, memory, disk, stats, layer_error_count, fetches, threads, lock, calls>>

InitPath == Init /\ ttl_seconds = MaxTTL

NextPath == ops = 0 /\ \E key \in KeyStrings : PathForKey(key)

SpecPath == InitPath /\ [][NextPath]_vars

\* The characters of [A-Za-z0-9_-]
Portable == AsciiAlnum \cup {"-", "_"}

\* C28: for every cache key, the derived disk file name keeps each character in
\* [A-Za-z0-9_-] unchanged and replaces every other character with '_', so the result
\* contains only characters from [A-Za-z0-9_-] and has the same length as the key.
C28_FileNameIsPortable ==
    last.op = "path"
        => /\ Len(last.path.stem) = Len(last.key)
           /\ \A i \in 1..Len(last.key) :
                 /\ last.key[i] \in Portable => last.path.stem[i] = last.key[i]
                 /\ last.key[i] \notin Portable => last.path.stem[i] = "_"
                 /\ last.path.stem[i] \in Portable

----------------------------------------------------------------------------
(* The service shared by concurrent callers of get_layer *)

\* Each caller runs get_layer one step at a time: a call of the cache, which holds the
\* lock for the memory tier and the counters, is one step; the fetch with the
\* normalization is one step; layer_error_count[layer_key] += 1, done outside any
\* lock, is the reading of the entry and the writing of the sum.

\* What the fetch collaborator may do for these callers
SharedResponses ==
    {[py |-> "raise", error |-> "HTTPError", msg |-> "upstream unavailable"],
     FeatureCollection(<<PolygonA>>)}

InitShared == Init /\ ttl_seconds = MaxTTL

\* The caller returns or raises result
GetLayerReturns(th, result) ==
    /\ threads' = [threads EXCEPT ![th] = Idle]
    /\ last' = [op |-> "get_layer", thread |-> th, layer_key |-> threads[th].layer_key,
                result |-> result]

\* get_layer is entered: cached is looked up unless the refresh is forced, and a fresh
\* entry is returned
SharedCall(th, layer_key, force_refresh) ==
    LET first == IF force_refresh
                 THEN [memory |-> memory, stats |-> stats, result |-> None]
                 ELSE CacheGet(memory, disk, stats, ttl_seconds, now, cache_key(layer_key), TRUE)
        cached == first.result
    IN  /\ threads[th] = Idle
        /\ ops < MaxOps
        /\ ops' = ops + 1
        /\ memory' = first.memory
        /\ stats' = first.stats
        /\ IF cached # None /\ cached.fresh
           THEN /\ threads' = [threads EXCEPT ![th] = Idle]
                /\ last' = [op |-> "get_layer", thread |-> th, layer_key |-> layer_key,
                            result |-> [py |-> "dict", layer |-> layer_key, data |-> cached.value,
                                        meta |-> Meta("cache", "hit", FALSE, cached, ttl_seconds),
                                        errors |-> << >>]]
           ELSE /\ threads' = [threads EXCEPT ![th] =
                        [pc |-> "fallback", op |-> "get_layer", layer_key |-> layer_key,
                         cached |-> cached]]
                /\ last' = last
        /\ UNCHANGED <<now, ttl_seconds, disk, layer_error_count, fetches, lock, calls>>

\* stale_cache = cached if cached else self.cache.get(cache_key, allow_stale=True)
SharedFallback(th) ==
    LET me == threads[th]
        second == IF me.cached # None
                  THEN [memory |-> memory, stats |-> stats, result |-> me.cached]
                  ELSE CacheGet(memory, disk, stats, ttl_seconds, now, cache_key(me.layer_key), TRUE)
    IN  /\ me.pc = "fallback"
        /\ memory' = second.memory
        /\ stats' = second.stats
        /\ threads' = [threads EXCEPT ![th] =
                [pc |-> "fetch", op |-> "get_layer", layer_key |-> me.layer_key,
                 stale_cache |-> second.result]]
        /\ UNCHANGED <<now, ttl_seconds, disk, layer_error_count, fetches, ops, last, lock, calls>>

\* The live fetch, and the storing of its value when it succeeds
SharedFetch(th, response) ==
    LET me == threads[th]
        live_value == _fetch_live_layer(me.layer_key, response)
        stored == CacheSet(memory, disk, stats, now, cache_key(me.layer_key), live_value, "ok")
    IN  /\ me.pc = "fetch"
        /\ fetches' = fetches + (IF me.layer_key \in DOMAIN LAYER_CONFIG THEN 1 ELSE 0)
        /\ IF live_value.py = "raise"
           THEN /\ threads' = [threads EXCEPT ![th] =
                        [pc |-> "mark", op |-> "get_layer", layer_key |-> me.layer_key,
                         stale_cache |-> me.stale_cache, exc |-> live_value]]
                /\ UNCHANGED <<memory, disk, stats, last>>
           ELSE /\ memory' = stored.memory
                /\ disk' = stored.disk
                /\ stats' = stored.stats
                /\ GetLayerReturns(th, [py |-> "dict", layer |-> me.layer_key,
                                        data |-> stored.result.value,
                                        meta |-> Meta("live", "miss_refresh", FALSE, stored.result, ttl_seconds),
                                        errors |-> << >>])
        /\ UNCHANGED <<now, ttl_seconds, layer_error_count, ops, lock, calls>>

\* self.cache.mark_refresh_failure()
SharedMark(th) ==
    LET me == threads[th]
    IN  /\ me.pc = "mark"
        /\ stats' = mark_refresh_failure(stats)
        /\ calls' = [calls EXCEPT !.marks = @ + 1]
        /\ threads' = [threads EXCEPT ![th] = [me EXCEPT !.pc = "count_load"]]
        /\ UNCHANGED <<now, ttl_seconds, memory, disk, layer_error_count, fetches, ops, last, lock>>

\* self.layer_error_count[layer_key] += 1: the entry is read
SharedCountLoad(th) ==
    LET me == threads[th]
    IN  /\ me.pc = "count_load"
        /\ threads' = [threads EXCEPT ![th] =
                [pc |-> "count_store", op |-> "get_layer", layer_key |-> me.layer_key,
                 stale_cache |-> me.stale_cache, exc |-> me.exc,
                 count |-> layer_error_count[me.layer_key]]]
        /\ UNCHANGED <<now, ttl_seconds, memory, disk, stats, layer_error_count, fetches, ops, last, lock, calls>>

\* ... and the sum is written; then the stale entry is returned, or the error raised
SharedCountStore(th) ==
    LET me == threads[th]
    IN  /\ me.pc = "count_store"
        /\ layer_error_count' = [layer_error_count EXCEPT ![me.layer_key] = me.count + 1]
        /\ GetLayerReturns(th, RefreshFailed(me.layer_key, me.stale_cache, me.exc, ttl_seconds))
        /\ UNCHANGED <<now, ttl_seconds, memory, disk, stats, fetches, ops, lock, calls>>

NextShared ==
    \/ \E th \in Threads, layer_key \in Layers, force_refresh \in BOOLEAN :
          SharedCall(th, layer_key, force_refresh)
    \/ \E th \in Threads : SharedFallback(th)
    \/ \E th \in Threads, response \in SharedResponses : SharedFetch(th, response)
    \/ \E th \in Threads : SharedMark(th)
    \/ \E th \in Threads : SharedCountLoad(th)
    \/ \E th \in Threads : SharedCountStore(th)
    \/ Tick

SpecShared == InitShared /\ [][NextShared]_vars

\* No caller is inside get_layer
Quiescent == \A th \in Threads : threads[th] = Idle

\* C29: under any interleaving of concurrent getLayer calls on one shared
\* orchestrator, the sum of the per-layer error counters equals the cache's
\* refresh_failures counter and equals the number of failed refresh attempts (no
\* increment of the per-layer counter is lost).
C29_ErrorCountersAgree ==
    Quiescent
        => /\ layer_error_count["neighborhoods"] + layer_error_count["parks"]
                 = stats["refresh_failures"]
           /\ stats["refresh_failures"] = calls.marks

----------------------------------------------------------------------------
(* Properties of get_layer: what is reported as stale *)

\* C30: whenever getLayer returns meta.stale = true (including from a forceRefresh call
\* whose fetch failed), the returned entry's age exceeds the configured TTL; an entry
\* still within the TTL is never reported as stale.
C30_StaleMeansOlderThanTTL ==
    (last.op = "get_layer" /\ last.result.py = "dict" /\ last.result.meta.stale)
        => /\ last.result.meta.age_seconds > ttl_seconds
           /\ last.at - last.result.meta.fetched_at > ttl_seconds

----------------------------------------------------------------------------
(* A live fetch that yields no feature, checked under Spec *)

\* The exception the last get_layer call caught, when it caught one
Cause(result) == IF result.py = "raise" THEN result.cause ELSE result.errors[1].exc

\* The live fetch of the last get_layer call was normalized to a collection without
\* features
NoFeaturesFetched ==
    /\ FetchFailed
    /\ Cause(last.result).error = "ValueError"
    /\ Cause(last.result).msg = "returned no features after normalization"

\* C31: a live fetch whose normalized result has no feature is handled as a refresh
\* failure: the cache is not written, the entry the cache held is still the entry it
\* holds, the result is not live data; every value in either tier of the cache, and
\* every value returned as live, has at least one feature.
C31_EmptyLayerIsRefreshFailure ==
    /\ NoFeaturesFetched
          => /\ ~last.wrote
             /\ Lookup(memory, disk, cache_key(last.layer_key)) = last.before
             /\ stats["refresh_failures"] >= 1
             /\ last.result.py = "dict" => last.result.meta.source = "cache"
    /\ \A k \in DOMAIN memory :
          /\ memory[k] # None => Len(memory[k].value.features) >= 1
          /\ Usable(disk[k]) => Len(disk[k].value.features) >= 1
    /\ (IsGetLayer /\ last.result.py = "dict" /\ last.result.meta.source = "live")
          => Len(last.result.data.features) >= 1

\* A fetch without features was answered with the entry the cache held
C31_Witness ==
    /\ NoFeaturesFetched
    /\ last.before # None
    /\ last.result.py = "dict"
    /\ last.result.meta.cache_event = "stale_served"
    /\ memory[cache_key(last.layer_key)] # None

----------------------------------------------------------------------------
(* The service and its cache across a restart of the process *)

\* What the fetch collaborator may do: fail, or return a feature of the layer
RestartResponses ==
    {[py |-> "raise", error |-> "HTTPError", msg |-> "upstream unavailable"],
     FeatureCollection(<<PointQ, LineL, PolygonB>>)}

\* The cache directory starts empty; the cache is used for one layer, directly and
\* through get_layer, the clock advances, and the process may be restarted
NextRestart ==
    \/ \E a \in BOOLEAN : Get(cache_key("neighborhoods"), a)
    \/ \E o \in WriteOutcomes : Set(cache_key("neighborhoods"), StoredValue, o)
    \/ \E f \in BOOLEAN, r \in RestartResponses, o \in PairOutcomes :
           GetLayer("neighborhoods", f, r, o)
    \/ Tick
    \/ Restart

SpecRestart == Init /\ [][NextRestart]_vars

\* The memory tier has no entry for the key and the file of the key holds the record
\* of a set
OnDiskOnly(k) == memory[k] = None /\ Usable(disk[k])

C32_Step ==
    /\ (ops' = ops + 1 /\ last'.op = "set" /\ last'.outcome = "ok")
          => /\ Usable(disk'[last'.key])
             /\ disk'[last'.key].value = last'.value
             /\ disk'[last'.key].fetched_at = now
    /\ (/\ ops' = ops + 1 /\ last'.op = "get_layer"
        /\ last'.result.py = "dict" /\ last'.result.meta.source = "live")
          => /\ Usable(disk'[cache_key(last'.layer_key)])
             /\ disk'[cache_key(last'.layer_key)].value = last'.result.data
             /\ disk'[cache_key(last'.layer_key)].fetched_at = now
    /\ (last'.op \in {"restart", "get"} \/ now' # now \/ (last'.op = "get_layer" /\ ~last'.wrote))
          => disk' = disk
    /\ last'.op = "restart" => \A k \in Keys : memory'[k] = None
    /\ (ops' = ops + 1 /\ last'.op = "get" /\ last'.allow_stale /\ OnDiskOnly(last'.key))
          => /\ last'.result # None
             /\ last'.result.value = disk[last'.key].value
             /\ last'.result.fetched_at = disk[last'.key].fetched_at
             /\ last'.result.source = "disk"
    /\ (/\ ops' = ops + 1 /\ last'.op = "get_layer"
        /\ OnDiskOnly(cache_key(last'.layer_key))
        /\ now - disk[cache_key(last'.layer_key)].fetched_at > ttl_seconds
        /\ last'.live \notin {"not attempted", "ok"})
          => /\ last'.result.py = "dict"
             /\ last'.result.data = disk[cache_key(last'.layer_key)].value
             /\ last'.result.meta.fetched_at = disk[cache_key(last'.layer_key)].fetched_at
             /\ last'.result.meta.stale = TRUE
             /\ last'.result.meta.cache_event = "stale_served"

\* C32: a successful set leaves the value and its fetched_at in the file of the key; a
\* restart empties the memory tier and keeps the files, as does every step that is no
\* write; a get that finds the key on disk only returns that value from disk with its
\* original fetched_at; and a get_layer that finds it on disk only, older than the TTL,
\* while the live fetch fails, serves it as the stale fallback instead of raising.
C32_StoredValueSurvivesRestart == [][C32_Step]_vars

\* After a restart, a value written before it and now older than the TTL was served
\* as the stale fallback of a failed fetch, and is in memory again
C32_Witness ==
    /\ IsGetLayer /\ FetchFailed /\ WasStale
    /\ stats["writes"] = 0
    /\ last.result.py = "dict"
    /\ last.result.meta.cache_event = "stale_served"
    /\ Usable(disk[cache_key(last.layer_key)])
    /\ last.result.data = disk[cache_key(last.layer_key)].value
    /\ last.result.meta.fetched_at = disk[cache_key(last.layer_key)].fetched_at
    /\ stats["hits"] + stats["misses"] + stats["stale_hits"] = 1

----------------------------------------------------------------------------
(* A set and the gets that start after it, checked under SpecLock *)

\* The callers still inside a set that read the clock no earlier than the time given
LaterSets(t) ==
    {th \in Threads : "op" \in DOMAIN threads[th] /\ threads[th].op = "set" /\ threads[th].now >= t}

\* C33: once set(k, v) has returned, a get(k) that starts afterwards returns v or a
\* value stored by a set that started later: while the set is the last call that
\* returned, the value a get would read from memory is the value of that set, or the
\* value of a set still running that read the clock no earlier.
C33_SetIsNotUndone ==
    (last.op = "set" /\ last.result.py = "dict")
        => /\ memory[last.key] # None
           /\ \/ memory[last.key].value = last.value
              \/ \E th \in LaterSets(last.at) : memory[last.key].value = threads[th].value

----------------------------------------------------------------------------
(* Termination of the cache operations under fair scheduling *)

\* The steps of a caller inside a call, other than taking the lock
Step(th) ==
    \/ LockedGetRead(th) \/ LockedGetDisk(th) \/ LockedPromote(th) \/ LockedGetFresh(th)
    \/ LockedSetStore(th) \/ CountLoad(th) \/ CountStore(th) \/ LockedStatsCopy(th)
    \/ SetOpen(th) \/ SetWrite(th)

\* The callers of SpecLock at one reading of the clock
NextLockFair ==
    \/ \E th \in Threads, k \in ConcKeys, a \in BOOLEAN : CallGet(th, k, a)
    \/ \E th \in Threads, k \in ConcKeys, o \in WriteOutcomes : CallSet(th, k, StoredValue, o)
    \/ \E th \in Threads : CallMarkRefreshFailure(th)
    \/ \E th \in Threads : CallStats(th)
    \/ \E th \in Threads : Acquire(th)
    \/ \E th \in Threads : Step(th)

\* Every caller inside a call keeps running, and a caller waiting for the lock gets
\* it if it is free again and again
SpecLockFair ==
    /\ InitLock /\ [][NextLockFair]_vars
    /\ \A th \in Threads : WF_vars(Step(th)) /\ SF_vars(Acquire(th))

\* Where a caller is while it holds the lock
InsideBlock == {"get_read", "promote", "set_store", "count_load", "count_store", "stats_copy"}

\* Where a caller reads or writes the file of a key
AtDisk == {"get_disk", "set_open", "set_write"}

LockDiscipline ==
    /\ lock \in {"free"} \cup Threads
    /\ \A th \in Threads :
          /\ lock = th => threads[th].pc \in InsideBlock
          /\ threads[th].pc \in DOMAIN LockedBlock => lock # th
          /\ threads[th].pc \in AtDisk \cup {"idle"} => lock # th

\* C34: under fair scheduling every get, set, mark_refresh_failure and stats call that
\* has begun eventually returns (or raises); the lock is held only inside a locked
\* block, is not held by a caller that is about to take it, and is not held where a
\* caller reads or writes a file or has returned.
C34_EveryCallCompletes ==
    /\ []LockDiscipline
    /\ \A th \in Threads : (threads[th] # Idle) ~> (threads[th] = Idle)

\* A caller waits for the lock while the other caller holds it
C34_Witness ==
    \E th \in Threads, other \in Threads :
        /\ th # other
        /\ threads[th].pc \in DOMAIN LockedBlock
        /\ lock = other
        /\ threads[other].pc \in InsideBlock

----------------------------------------------------------------------------
(* Properties of the router graph, checked under SpecRoute *)

\* The features of the last call that have a name and a geometry that is not empty
\* after repair
Eligible ==
    LET Usable_(feature) ==
            /\ feature.properties.neighborhood_name # << >>
            /\ feature.geometry # NoShape
            /\ feature.geometry.west < feature.geometry.east
    IN  SelectSeq(last.collection.features, Usable_)

\* C35: the router graph has exactly one node per input feature that has a name and a
\* geometry that is not empty after repair: as many nodes as such features, in their
\* order and under their names.
C35_OneNodePerFeature ==
    (last.op = "corridor" /\ Eligible # << >>)
        => /\ RouteGraph.py = "Graph"
           /\ Cardinality(DOMAIN RouteGraph.node) = Len(Eligible)
           /\ Len(RouteGraph.order) = Len(Eligible)
           /\ \A i \in 1..Len(Eligible) :
                 /\ i <= Len(RouteGraph.order)
                 /\ RouteGraph.order[i] = Eligible[i].properties.neighborhood_name

----------------------------------------------------------------------------
(* The router called with neighbourhoods that lie apart or reach far *)

\* A neighbourhood that reaches far to the east
Strip == [type |-> "Polygon", west |-> 1, east |-> 10]

TerrainShapes == {Cell(west) : west \in 0..MaxCell} \cup {Strip}

\* Up to MaxFeatures neighbourhoods, listed from west to east
TerrainLayouts ==
    {shapes \in UNION {[1..n -> TerrainShapes] : n \in 1..MaxFeatures} :
        \A i \in 1..(Len(shapes) - 1) : shapes[i].west <= shapes[i + 1].west}

\* The collection whose i-th feature has the i-th shape; renamed gives its last
\* feature the name of the first one
Terrain(shapes, profile, renamed) ==
    LET n == Len(shapes)
    IN  FeatureCollection(
            [i \in 1..n |->
                RouteFeature(IF renamed /\ i = n /\ n >= 2 THEN NodeNames[1] ELSE NodeNames[i],
                             Risks[((i + profile) % 3) + 1], shapes[i])])

Terrains ==
    {Terrain(shapes, profile, renamed) :
        shapes \in TerrainLayouts, profile \in Profiles, renamed \in BOOLEAN}

NextTerrain ==
    /\ ops = 0
    /\ \E fc \in Terrains, t \in { <<"C">>, <<"D">> } : ComputeCorridor(fc, <<"A">>, t)

SpecTerrain == InitRoute /\ [][NextTerrain]_vars

----------------------------------------------------------------------------
(* Properties of graph construction, checked under SpecTerrain *)

NameOf(i) == Eligible[i].properties.neighborhood_name

\* The names of the eligible features
NodeSet == {NameOf(i) : i \in 1..Len(Eligible)}

\* The pairs of eligible features whose polygons touch or intersect
Touching ==
    {pr \in (1..Len(Eligible)) \X (1..Len(Eligible)) :
        /\ pr[1] < pr[2]
        /\ Eligible[pr[1]].geometry.west <= Eligible[pr[2]].geometry.east
        /\ Eligible[pr[2]].geometry.west <= Eligible[pr[1]].geometry.east}

AdjacencyEdges == {{NameOf(pr[1]), NameOf(pr[2])} : pr \in Touching}

\* The nodes without an edge after the pairwise pass
Isolated == {n \in NodeSet : \A e \in AdjacencyEdges : n \notin e}

\* Twice the distance of the centroids of two features, in hundredths of a degree
CentroidGap(i, j) ==
    Abs((Eligible[i].geometry.west + Eligible[i].geometry.east)
        - (Eligible[j].geometry.west + Eligible[j].geometry.east))

\* A node m is at most as far from n as k is, by their closest features
NoFarther(n, m, k) ==
    \E i, j \in 1..Len(Eligible) :
        /\ NameOf(i) = n /\ NameOf(j) = m
        /\ \A x, y \in 1..Len(Eligible) :
              (NameOf(x) = n /\ NameOf(y) = k) => CentroidGap(i, j) <= CentroidGap(x, y)

Nearest(n) == {m \in NodeSet \ {n} : \A k \in NodeSet \ {n} : NoFarther(n, m, k)}

\* C36: for an input of at least two nodes no node is left without an edge; the edges
\* of the pairwise pass are in the graph with the penalty that pass gave them; and the
\* other edges are one per node that had no edge after the pairwise pass, each from
\* that node to a nearest other node by centroid distance.
C36_IsolatesRescuedOnce ==
    (last.op = "corridor" /\ Cardinality(NodeSet) >= 2)
        => LET E == DOMAIN RouteGraph.edge
           IN  /\ \A n \in NodeSet : \E e \in E : n \in e
               /\ AdjacencyEdges \subseteq E
               /\ \A e \in AdjacencyEdges : \E pr \in Touching :
                     /\ e = {NameOf(pr[1]), NameOf(pr[2])}
                     /\ RouteGraph.edge[e].traversal_penalty
                            = Scaled(One, 8, 100)
                              + Min(Scaled(One, 9, 10),
                                    Scaled(CentroidGap(pr[1], pr[2]) * (One \div 200) * KmPerDegree, 6, 100))
               /\ \E closest \in [Isolated -> NodeSet] :
                     /\ \A n \in Isolated : closest[n] \in Nearest(n)
                     /\ E \ AdjacencyEdges = {{n, closest[n]} : n \in Isolated}

\* Some neighbourhoods touch and another one lies apart from all of them
C36_Witness ==
    /\ last.op = "corridor"
    /\ Cardinality(NodeSet) >= 3
    /\ AdjacencyEdges # {}
    /\ Isolated # {}
    /\ \A n \in NodeSet : \E e \in DOMAIN RouteGraph.edge : n \in e

\* The nodes joined to a node of the set by a path of the given edges
RECURSIVE Reachable(_, _)
Reachable(set, edges) ==
    LET grown == set \cup UNION {e \in edges : e \cap set # {}}
    IN  IF grown = set THEN set ELSE Reachable(grown, edges)

\* C37: whenever at least one pair of nodes touches or intersects, the graph left by
\* the rescue pass joins every pair of nodes by some path (it is disconnected only
\* when all nodes were mutually non-adjacent before the pass).
C37_ConnectedWhenSomePairTouches ==
    (last.op = "corridor" /\ \E e \in AdjacencyEdges : Cardinality(e) = 2)
        => \A n \in NodeSet : Reachable({n}, DOMAIN RouteGraph.edge) = NodeSet

----------------------------------------------------------------------------
(* Risk and traversal penalty in the choice of the route, checked under SpecTerrain *)

\* The risk part of the weight of a path: 0.72 times the average risk of the two ends
\* of an edge, summed over its edges
RiskContribution(graph, path) ==
    Sum([i \in 1..(Len(path) - 1) |->
            Scaled(Scaled(graph.node[path[i]].probability + graph.node[path[i + 1]].probability, 1, 2),
                   72, 100)])

\* C38: risk dominates route choice: the route returned between two distinct nodes has
\* a risk contribution no higher than that of any other route between them (the
\* traversal penalty decides only between routes of equal risk contribution).
C38_RiskDominates ==
    (Routed /\ Origin # Destination)
        => \A other \in Walks(RouteGraph, <<Origin>>, Destination) :
              RiskContribution(RouteGraph, last.result.ordered_neighborhoods)
                  <= RiskContribution(RouteGraph, other)

----------------------------------------------------------------------------
(* The lookups a get_layer call counts, checked under Spec *)

\* The lookups the cache has counted
Lookups(st) == st["hits"] + st["misses"] + st["stale_hits"]

C39_Step ==
    (ops' = ops + 1 /\ last'.op = "get_layer") => Lookups(stats') = Lookups(stats) + 1

\* C39: each get_layer call counts as exactly one cache lookup: hits + misses +
\* stale_hits increases by exactly one per call.
C39_OneLookupPerCall == [][C39_Step]_vars

====
